---- MODULE Spec2Model ----
(***************************************************************************)
(* Skribbl server: one room of GameManager (gameManager.js), the           *)
(* GameService guards, the socket handlers of server.js and the            *)
(* visibility functions of utils/gameSanitizer.js.                         *)
(*                                                                         *)
(* The server is a single-threaded event loop.  Every action below is one  *)
(* run-to-completion segment of a handler: from the event (or from the     *)
(* resumption of an await) to the next await or to the handler's end.      *)
(* Suspended handlers are kept in tasks, running setInterval instances in  *)
(* timers.  The game object is kept after it left GameManager.games,       *)
(* because suspended handlers and timer closures still hold it.            *)
(***************************************************************************)
EXTENDS Integers, Sequences, FiniteSets, Bags, TLC

(***************************************************************************)
(* Bounds of the model.                                                    *)
(***************************************************************************)
\* sockets that connect during a run; a socket id is never reused
MaxConns == 2
\* suspended async handlers (awaits and setTimeout callbacks) at one time
MaxTasks == 1
\* setInterval instances alive at one time
MaxTimers == 3
\* ticks of the choosing countdown (10 in the code, lines 349 and 462)
ChoiceTime == 1
\* the drawTime setting of a room, in ticks (30..300 in the code at join)
MaxDrawTime == 2
\* largest maxRounds setting of a room (the code accepts 1..10 at join)
MaxRoundsBound == 1
\* round stops growing here (a finished room that is started again goes on counting)
RoundCap == 2

\* socket ids (socket.id); the id of a player is the id of its socket
Sockets == 1..MaxConns

\* null / undefined of a reference to a player or of an id
Null == 0
\* null (or the empty string) of currentWord; null or [] of wordChoices
NoWord == <<>>
NoChoices == <<>>

(***************************************************************************)
(* Strings are sequences of one-character strings.                         *)
(***************************************************************************)
Cat == <<"c", "a", "t">>
Taco == <<"t", "a", "c", "o">>
Words == {Cat, Taco}
\* what `SELECT word FROM words ORDER BY RANDOM() LIMIT 3` may return
WordLists == {<<>>, <<Cat, Taco>>}
\* chat texts: a guess of Cat (other case, a trailing space), Cat inside a sentence
Messages == {<<"C", "a", "t", " ">>, <<"a", " ", "c", "a", "t">>}

Lower(ch) ==
  CASE ch = "A" -> "a" [] ch = "C" -> "c" [] ch = "T" -> "t"
    [] ch = "O" -> "o" [] ch = "S" -> "s" [] OTHER -> ch

\* \w of a JavaScript regular expression, over the characters of the model
IsWordChar(ch) == ch \in {"a", "c", "t", "o", "s", "A", "C", "T", "O", "S", "_"}

ToLower(s) == [i \in 1..Len(s) |-> Lower(s[i])]

\* String.prototype.trim
RECURSIVE TrimLeft(_)
TrimLeft(s) == IF s # <<>> /\ Head(s) = " " THEN TrimLeft(Tail(s)) ELSE s
RECURSIVE TrimRight(_)
TrimRight(s) ==
  IF s # <<>> /\ s[Len(s)] = " " THEN TrimRight(SubSeq(s, 1, Len(s) - 1)) ELSE s
Trim(s) == TrimRight(TrimLeft(s))

Stars(n) == [i \in 1..n |-> "*"]

\* \b between positions k and k+1 of s (k = 0: before the first character)
Boundary(s, k) ==
  ((k >= 1 /\ k <= Len(s)) /\ IsWordChar(s[k]))
    # ((k + 1 >= 1 /\ k + 1 <= Len(s)) /\ IsWordChar(s[k + 1]))

\* the regular expression \bword\b with flags gi matches s at position i
MatchAt(s, word, i) ==
  /\ i + Len(word) - 1 <= Len(s)
  /\ \A j \in 1..Len(word) : Lower(s[i + j - 1]) = Lower(word[j])
  /\ Boundary(s, i - 1)
  /\ Boundary(s, i + Len(word) - 1)

RECURSIVE ReplaceFrom(_, _, _)
ReplaceFrom(s, word, i) ==
  IF i > Len(s) THEN <<>>
  ELSE IF MatchAt(s, word, i)
       THEN Stars(Len(word)) \o ReplaceFrom(s, word, i + Len(word))
       ELSE <<s[i]>> \o ReplaceFrom(s, word, i + 1)

filterChatMessage(message, currentWord) ==
  IF currentWord = NoWord \/ message = <<>> THEN message
  ELSE ReplaceFrom(message, currentWord, 1)

\* word.split("").map(char => char === " " ? "     " : "_"), before .join(" ")
initialHints(word) == [i \in 1..Len(word) |-> IF word[i] = " " THEN "     " ELSE "_"]

(***************************************************************************)
(* utils/gameSanitizer.js                                                  *)
(***************************************************************************)
SeqToSet(s) == {s[i] : i \in 1..Len(s)}

\* canPlayerSeeWord with the branch on gamePhase "results" dropped
canPlayerSeeWordNoResults(g, playerId) ==
  IF playerId = Null THEN FALSE
  ELSE IF g.status # "playing" THEN TRUE
  ELSE IF g.currentWord = NoWord THEN FALSE
  ELSE IF g.currentDrawer # Null /\ g.currentDrawer = playerId THEN TRUE
  ELSE IF playerId \in SeqToSet(g.players) /\ playerId \in g.hasGuessed THEN TRUE
  ELSE FALSE

canPlayerSeeWord(g, playerId) ==
  IF playerId = Null THEN FALSE
  ELSE IF g.status # "playing" THEN TRUE
  ELSE IF g.currentWord = NoWord THEN FALSE
  ELSE IF g.currentDrawer # Null /\ g.currentDrawer = playerId THEN TRUE
  ELSE IF playerId \in SeqToSet(g.players) /\ playerId \in g.hasGuessed THEN TRUE
  ELSE IF g.gamePhase = "choosing"
       THEN g.currentDrawer # Null /\ g.currentDrawer = playerId
  ELSE IF g.gamePhase = "results" THEN TRUE
  ELSE FALSE

\* sanitizeGameForPlayer that never hides the word
sanitizeGameForPlayerShown(g, playerId) ==
  [currentWord |-> g.currentWord, wordChoices |-> g.wordChoices, hints |-> g.hints]

\* the shallow copy a viewer receives: only the fields the copy may change
\* and the candidate list, which it never changes
sanitizeGameForPlayer(g, playerId) ==
  IF canPlayerSeeWord(g, playerId)
  THEN [currentWord |-> g.currentWord, wordChoices |-> g.wordChoices, hints |-> g.hints]
  ELSE [currentWord |-> NoWord,
        wordChoices |-> g.wordChoices,
        hints |-> IF g.gamePhase = "drawing" /\ g.hints = <<>>
                  THEN (IF g.currentWord # NoWord THEN initialHints(g.currentWord) ELSE <<>>)
                  ELSE g.hints]

getPlayersWhoCanSeeWord(g) ==
  (IF g.currentDrawer # Null THEN {g.currentDrawer} ELSE {})
    \cup {p \in SeqToSet(g.players) : p \in g.hasGuessed /\ p # g.currentDrawer}

(***************************************************************************)
(* State.                                                                  *)
(***************************************************************************)
VARIABLES
  room,     \* "none" | "live" | "deleted": is the game in GameManager.games
  game,     \* the game object of the room
  conn,     \* sockets that are connected
  joined,   \* sockets in the socket.io room of the game (socket.join)
  timers,   \* bag of running setInterval instances
  tasks,    \* bag of suspended handlers (pending awaits and setTimeout)
  sent,     \* the messages the last step delivered, when env.observe is set
  env,      \* the run: are deliveries recorded, how many handlers may be
            \* suspended, are the scores of the players followed
  probe     \* input and result of a function applied on its own

vars == <<room, game, conn, joined, timers, tasks, sent, env, probe>>

NoProbe == [fn |-> "none"]

\* createGame, lines 265-282 (bannedPlayers is created lazily by kickPlayer)
newGame(drawTime, maxRounds) ==
  [ownerId |-> Null,
   players |-> <<>>,
   score |-> [p \in {} |-> 0],
   hasGuessed |-> {},
   playersReady |-> <<>>,
   bannedPlayers |-> {},
   currentWord |-> NoWord,
   wordChoices |-> NoChoices,
   currentDrawer |-> Null,
   round |-> 1,
   maxRounds |-> maxRounds,
   drawTime |-> drawTime,
   status |-> "waiting",
   gamePhase |-> "drawing",
   timeLeft |-> 0,
   drawingData |-> <<>>,
   hints |-> <<>>]

(***************************************************************************)
(* Delivery.  A message records what it carries (the word, the candidate   *)
(* list, a chat text), for a chat text what its sender typed (raw) and,    *)
(* in at, what held for its recipient when it was delivered.               *)
(***************************************************************************)
ViewOf(g, to) ==
  [status |-> g.status,
   gamePhase |-> g.gamePhase,
   secret |-> g.currentWord,
   isPlayer |-> to \in SeqToSet(g.players),
   isDrawer |-> g.currentDrawer # Null /\ g.currentDrawer = to,
   hasGuessed |-> to \in g.hasGuessed,
   canSee |-> canPlayerSeeWord(g, to)]

Msg(ev, to, word, choices, text, raw, g) ==
  [ev |-> ev, to |-> to, word |-> word, choices |-> choices, text |-> text,
   raw |-> raw, at |-> ViewOf(g, to)]

Deliver(msgs) == IF env.observe THEN msgs ELSE {}

\* io.to(gameId).emit(ev, game): the game object itself, to the whole room
emitGame(ev, g, receivers) ==
  {Msg(ev, s, g.currentWord, g.wordChoices, <<>>, <<>>, g) : s \in receivers}

\* io.to(gameId).emit("word-choices", {words})
emitWordChoices(g, receivers) ==
  {Msg("word-choices", s, NoWord, g.wordChoices, <<>>, <<>>, g) : s \in receivers}

\* io.to(gameId).emit("word-selected", {word})
emitWordSelected(g, word, receivers) ==
  {Msg("word-selected", s, word, NoChoices, <<>>, <<>>, g) : s \in receivers}

\* io.to(gameId).emit("round-end", {word: game.currentWord, ...})
emitRoundEnd(g, receivers) ==
  {Msg("round-end", s, g.currentWord, NoChoices, <<>>, <<>>, g) : s \in receivers}

\* broadcastGameUpdate, server.js lines 167-175
broadcastGameUpdate(g, open) ==
  {Msg("game-update", p, sanitizeGameForPlayer(g, p).currentWord,
       sanitizeGameForPlayer(g, p).wordChoices, <<>>, <<>>, g)
     : p \in SeqToSet(g.players) \cap open}

(***************************************************************************)
(* Timers.  An instance is [kind, tl, reg]: tl is the closure's timeLeft,  *)
(* reg says that the entry of GameManager.timers (hintTimers) for its key  *)
(* holds this instance.                                                    *)
(***************************************************************************)
Timer(kind, tl, reg) == [kind |-> kind, tl |-> tl, reg |-> reg]

One(x) == SetToBag({x})

Running(kind) == {t \in BagToSet(timers) : t.kind = kind}

NumRunning(T, kind) ==
  LET S == {t \in BagToSet(T) : t.kind = kind}
      RECURSIVE Sum(_)
      Sum(X) == IF X = {} THEN 0
                ELSE LET x == CHOOSE y \in X : TRUE IN CopiesIn(x, T) + Sum(X \ {x})
  IN Sum(S)

\* clearInterval of the instance the map holds for one key, and delete of the key
clearKey(T, kind) ==
  LET S == {t \in BagToSet(T) : ~(t.kind = kind /\ t.reg)}
  IN [t \in S |-> CopiesIn(t, T)]

\* this.timers.delete(key) alone: the instance it held keeps running
dropKey(T, kind) ==
  LET S == BagToSet(T)
      un(t) == IF t.kind = kind THEN [t EXCEPT !.reg = FALSE] ELSE t
      RECURSIVE Build(_)
      Build(X) == IF X = {} THEN EmptyBag
                  ELSE LET x == CHOOSE y \in X : TRUE
                       IN [e \in {un(x)} |-> CopiesIn(x, T)] (+) Build(X \ {x})
  IN Build(S)

\* this.timers.set(key, timer): the entry now holds the new instance
setKey(T, kind, tl) == dropKey(T, kind) (+) One(Timer(kind, tl, TRUE))

clearChoiceTimer(T) == clearKey(T, "choice")

\* clearGameTimers, lines 643-657
clearGameTimers(T) == clearKey(clearKey(clearKey(T, "choice"), "draw"), "hint")

(***************************************************************************)
(* Suspended handlers.  k is the handler, pc the await it waits at, c the  *)
(* socket that sent the request (Null: a timer), x the word or the chat    *)
(* text it carries, src the caller of nextTurn or selectWord, stale says   *)
(* that the player object the handler holds has left players.              *)
(***************************************************************************)
Task(k, pc, c, x, src) == [k |-> k, pc |-> pc, c |-> c, x |-> x, src |-> src, stale |-> FALSE]

Spawn(T, t) == T (+) One(t)
Finish(T, t) == T (-) One(t)
Move(T, t, pc) == (T (-) One(t)) (+) One([t EXCEPT !.pc = pc])

\* the player objects of userId leave players: handlers that hold one keep it
markStale(T, userId) ==
  LET S == BagToSet(T)
      st(t) == IF t.k = "chat" /\ t.c = userId THEN [t EXCEPT !.stale = TRUE] ELSE t
      RECURSIVE Build(_)
      Build(X) == IF X = {} THEN EmptyBag
                  ELSE LET x == CHOOSE y \in X : TRUE
                       IN [e \in {st(x)} |-> CopiesIn(x, T)] (+) Build(X \ {x})
  IN Build(S)

CanSpawn == BagCardinality(tasks) < env.maxTasks

IndexOf(seq, x) ==
  IF x \in SeqToSet(seq) THEN CHOOSE i \in 1..Len(seq) : seq[i] = x ELSE 0

(***************************************************************************)
(* GameManager: the synchronous parts.                                     *)
(***************************************************************************)
\* resetGuessStatus, lines 734-738
resetGuessStatus(g) == [g EXCEPT !.hasGuessed = {}]

\* allPlayersGuessed, lines 723-731
allPlayersGuessed(g) ==
  LET nonDrawers == {p \in SeqToSet(g.players) : p # g.currentDrawer}
  IN nonDrawers # {} /\ nonDrawers \subseteq g.hasGuessed

\* removePlayer without the transfer of ownership
removePlayerKeepOwner(g, userId, newOwnerId) ==
  [g EXCEPT !.players = SelectSeq(@, LAMBDA p : p # userId),
            !.score = [p \in DOMAIN @ \ {userId} |-> @[p]],
            !.playersReady = SelectSeq(@, LAMBDA p : p # userId),
            !.hasGuessed = @ \ {userId}]

\* removePlayer that never marks the new owner ready
removePlayerNotReady(g, userId, newOwnerId) ==
  LET g1 == [g EXCEPT !.players = SelectSeq(@, LAMBDA p : p # userId),
                      !.score = [p \in DOMAIN @ \ {userId} |-> @[p]],
                      !.playersReady = SelectSeq(@, LAMBDA p : p # userId),
                      !.hasGuessed = @ \ {userId}]
  IN IF g1.players # <<>> /\ g.ownerId = userId
     THEN [g1 EXCEPT !.ownerId = newOwnerId]
     ELSE g1

\* removePlayer, lines 808-848: the game object afterwards; newOwnerId is the
\* player Math.random picks
removePlayer(g, userId, newOwnerId) ==
  LET g1 == [g EXCEPT !.players = SelectSeq(@, LAMBDA p : p # userId),
                      !.score = [p \in DOMAIN @ \ {userId} |-> @[p]],
                      !.playersReady = SelectSeq(@, LAMBDA p : p # userId),
                      !.hasGuessed = @ \ {userId}]
  IN IF g1.players # <<>> /\ g.ownerId = userId
     THEN [g1 EXCEPT !.ownerId = newOwnerId,
                     !.playersReady =
                        IF g1.status = "finished" /\ newOwnerId \notin SeqToSet(@)
                        THEN Append(@, newOwnerId) ELSE @]
     ELSE g1

\* removePlayer: the timers afterwards
removePlayerTimers(g, userId, T) ==
  IF SelectSeq(g.players, LAMBDA p : p # userId) = <<>> THEN clearGameTimers(T)
  ELSE IF g.currentDrawer = userId /\ g.currentDrawer # Null /\ g.status = "playing"
       THEN clearGameTimers(T)
       ELSE T

\* the choices of Math.random in removePlayer
NewOwners(g, userId) ==
  LET rest == SeqToSet(g.players) \ {userId}
  IN IF rest # {} /\ g.ownerId = userId THEN rest ELSE {Null}

\* startChoiceTimer, lines 480-522: the timers afterwards
startChoiceTimer(T, g, live) ==
  IF live THEN setKey(clearChoiceTimer(T), "choice", g.timeLeft) ELSE clearChoiceTimer(T)

\* startDrawTimer that starts no timer
startDrawTimerNone(T, g, live) == T

\* startDrawTimer, lines 531-574
startDrawTimer(T, g, live) ==
  IF live THEN setKey(T, "draw", g.timeLeft) ELSE T

\* startHintTimer, lines 576-641
startHintTimer(T, g, live) ==
  IF ~live \/ g.currentWord = NoWord THEN T
  ELSE IF Len(g.currentWord) <= 3 THEN T
  ELSE setKey(T, "hint", 0)

\* selectWord, lines 373-386: the assignments before the first await
selectWordSync(g, word) ==
  [g EXCEPT !.currentWord = word,
            !.wordChoices = NoChoices,
            !.gamePhase = "drawing",
            !.timeLeft = g.drawTime,
            !.hints = initialHints(word)]

(***************************************************************************)
(* The state after construction: no room, every socket connected and no    *)
(* request handled yet.                                                    *)
(***************************************************************************)
DrawTimes == {MaxDrawTime}
RoundSettings == 1..MaxRoundsBound

InitWith(sockets, obs, maxTasks) ==
  /\ room = "none"
  /\ game = newGame(MaxDrawTime, MaxRoundsBound)
  /\ conn = sockets
  /\ joined = {}
  /\ timers = EmptyBag
  /\ tasks = EmptyBag
  /\ sent = {}
  /\ env = [observe |-> obs, maxTasks |-> maxTasks, points |-> FALSE]
  /\ probe = NoProbe

Init == InitWith(Sockets, FALSE, MaxTasks)

Live == room = "live"

(***************************************************************************)
(* join-game: server.js 234-297, createOrJoinGame, createGame, joinGame.   *)
(***************************************************************************)
\* joinGame, lines 294-301: up to the first await
joinGameSync(g, c) ==
  IF g.ownerId = Null /\ g.players = <<>> THEN [g EXCEPT !.ownerId = c] ELSE g

\* a join to a room code nobody used: createGame, then joinGame to its await
CreateGame(c, drawTime, maxRounds) ==
  /\ room = "none"
  /\ c \in conn
  /\ CanSpawn
  /\ room' = "live"
  /\ game' = joinGameSync(newGame(drawTime, maxRounds), c)
  /\ tasks' = Spawn(tasks, Task("join", "persist", c, <<>>, "client"))
  /\ sent' = {}
  /\ UNCHANGED <<conn, joined, timers, env, probe>>

\* a join to the code of the live room: joinGame to its await
JoinGame(c) ==
  /\ Live
  /\ c \in conn
  /\ CanSpawn
  /\ game' = joinGameSync(game, c)
  /\ tasks' = Spawn(tasks, Task("join", "persist", c, <<>>, "client"))
  /\ sent' = {}
  /\ UNCHANGED <<room, conn, joined, timers, env, probe>>

\* joinGame, lines 313-323, and the rest of the handler, lines 273-287
JoinPersisted(t) ==
  /\ t.k = "join" /\ t.pc = "persist"
  /\ LET g == IF t.c \in SeqToSet(game.players) THEN game
              ELSE [game EXCEPT !.players = Append(@, t.c),
                                !.score = [p \in DOMAIN @ \cup {t.c} |->
                                             IF p = t.c THEN 0 ELSE @[p]]]
     IN /\ game' = g
        /\ joined' = IF t.c \in conn THEN joined \cup {t.c} ELSE joined
        /\ sent' = Deliver(broadcastGameUpdate(g, conn))
  /\ tasks' = Finish(tasks, t)
  /\ UNCHANGED <<room, conn, timers, env, probe>>

\* one of the INSERT / UPDATE statements of joinGame throws: lines 324-327
JoinFailed(t) ==
  /\ t.k = "join" /\ t.pc = "persist"
  /\ tasks' = Finish(tasks, t)
  /\ sent' = {}
  /\ UNCHANGED <<room, game, conn, joined, timers, env, probe>>

(***************************************************************************)
(* disconnect: server.js 468-488, handlePlayerDisconnect, removePlayer.    *)
(***************************************************************************)
Disconnect(c) ==
  /\ c \in conn
  /\ conn' = conn \ {c}
  /\ joined' = joined \ {c}
  /\ IF Live /\ c \in SeqToSet(game.players)
     THEN \E o \in NewOwners(game, c) :
            LET g == removePlayer(game, c, o)
            IN /\ game' = g
               /\ room' = IF g.players = <<>> THEN "deleted" ELSE room
               /\ timers' = removePlayerTimers(game, c, timers)
               /\ tasks' = markStale(tasks, c)
               /\ sent' = Deliver(broadcastGameUpdate(g, conn \ {c}))
     ELSE /\ sent' = {}
          /\ UNCHANGED <<room, game, timers, tasks>>
  /\ UNCHANGED <<env, probe>>

(***************************************************************************)
(* kick-player: server.js 524-557, GameService.kickPlayer.                 *)
(***************************************************************************)
\* kick-player without the check of lines 144-146 (target is the owner)
KickSelf(c, target) ==
  /\ Live
  /\ c \in conn
  /\ game.ownerId = c
  /\ \E o \in NewOwners(game, target) :
       LET g == removePlayer([game EXCEPT !.bannedPlayers = @ \cup {target}], target, o)
       IN /\ game' = g
          /\ room' = IF g.players = <<>> THEN "deleted" ELSE room
          /\ timers' = removePlayerTimers(game, target, timers)
          /\ tasks' = markStale(tasks, target)
          /\ sent' = Deliver(broadcastGameUpdate(g, conn))
  /\ UNCHANGED <<conn, joined, env, probe>>

Kick(c, target) ==
  /\ Live
  /\ c \in conn
  /\ game.ownerId = c
  /\ target # c
  /\ \E o \in NewOwners(game, target) :
       LET g == removePlayer([game EXCEPT !.bannedPlayers = @ \cup {target}], target, o)
       IN /\ game' = g
          /\ room' = IF g.players = <<>> THEN "deleted" ELSE room
          /\ timers' = removePlayerTimers(game, target, timers)
          /\ tasks' = markStale(tasks, target)
          /\ sent' = Deliver(broadcastGameUpdate(g, conn))
  /\ UNCHANGED <<conn, joined, env, probe>>

(***************************************************************************)
(* start-game: server.js 299-314, GameService.startGame, startGame.        *)
(***************************************************************************)
\* startGame, lines 336-342: up to the SELECT of the words
startGameSync(g) ==
  [g EXCEPT !.hasGuessed = {}, !.status = "playing", !.currentDrawer = g.players[1]]

StartGame(c) ==
  /\ Live
  /\ c \in conn
  /\ game.ownerId = c
  /\ Len(game.players) >= 2
  /\ CanSpawn
  /\ game' = startGameSync(game)
  /\ tasks' = Spawn(tasks, Task("start", "words", Null, <<>>, "client"))
  /\ sent' = {}
  /\ UNCHANGED <<room, conn, joined, timers, env, probe>>

\* lines 347-352: the words arrived; the UPDATE reads game.currentDrawer.id
StartWords(t, words) ==
  /\ t.k = "start" /\ t.pc = "words"
  /\ game' = [game EXCEPT !.wordChoices = words,
                          !.gamePhase = "choosing",
                          !.timeLeft = ChoiceTime,
                          !.hints = <<>>]
  /\ tasks' = IF game.currentDrawer = Null THEN Finish(tasks, t) ELSE Move(tasks, t, "update")
  /\ sent' = {}
  /\ UNCHANGED <<room, conn, joined, timers, env, probe>>

\* lines 354-360 and the handler, lines 304-307
StartUpdated(t) ==
  /\ t.k = "start" /\ t.pc = "update"
  /\ timers' = startChoiceTimer(timers, game, Live)
  /\ BagCardinality(timers') <= MaxTimers
  /\ tasks' = Finish(tasks, t)
  /\ sent' = Deliver(emitWordChoices(game, joined)
               \cup emitGame("game-started", game, joined)
               \cup broadcastGameUpdate(game, conn))
  /\ UNCHANGED <<room, game, conn, joined, env, probe>>

\* the SELECT or the UPDATE of startGame throws: lines 361-364
StartFailed(t) ==
  /\ t.k = "start"
  /\ tasks' = Finish(tasks, t)
  /\ sent' = {}
  /\ UNCHANGED <<room, game, conn, joined, timers, env, probe>>

(***************************************************************************)
(* word-select: server.js 316-330, GameService.selectWord, selectWord.     *)
(***************************************************************************)
SelectWord(c, word) ==
  /\ Live
  /\ c \in conn
  /\ CanSpawn
  /\ game' = selectWordSync(game, word)
  /\ tasks' = Spawn(tasks, Task("select", "update", Null, word, "client"))
  /\ sent' = {}
  /\ UNCHANGED <<room, conn, joined, timers, env, probe>>

\* selectWord, lines 390-399, and for a client's request the handler, 321-323
SelectUpdated(t) ==
  /\ t.k = "select" /\ t.pc = "update"
  /\ timers' = startHintTimer(startDrawTimer(clearChoiceTimer(timers), game, Live), game, Live)
  /\ BagCardinality(timers') <= MaxTimers
  /\ tasks' = Finish(tasks, t)
  /\ sent' = Deliver(emitWordSelected(game, t.x, joined)
               \cup (IF t.src = "client" THEN broadcastGameUpdate(game, conn) ELSE {}))
  /\ UNCHANGED <<room, game, conn, joined, env, probe>>

\* the UPDATE of selectWord throws: lines 400-403
SelectFailed(t) ==
  /\ t.k = "select"
  /\ tasks' = Finish(tasks, t)
  /\ sent' = {}
  /\ UNCHANGED <<room, game, conn, joined, timers, env, probe>>

(***************************************************************************)
(* nextTurn, lines 406-478.                                                *)
(***************************************************************************)
\* lines 412-423: called on a live room, up to the 3 second pause
nextTurnSync(T) == clearGameTimers(T)

\* nextDrawerIndex computed from the index after the current drawer's
NextDrawerIndexSkip(g) == ((IndexOf(g.players, g.currentDrawer) + 1) % Len(g.players)) + 1

\* lines 429-441
NextDrawerIndex(g) == (IndexOf(g.players, g.currentDrawer) % Len(g.players)) + 1

\* lines 426-458: the pause is over
NextPaused(t) ==
  /\ t.k = "next" /\ t.pc = "pause"
  /\ IF game.players = <<>>
     THEN \* the index is NaN: players[NaN] is undefined
          /\ game' = [resetGuessStatus(game) EXCEPT !.currentDrawer = Null]
          /\ tasks' = Move(tasks, t, "words")
     ELSE LET next == NextDrawerIndex(game)
              g1 == IF next = 1 THEN [game EXCEPT !.round = @ + 1] ELSE game
          IN /\ (g1.round <= RoundCap \/ g1.round <= g1.maxRounds + 1)
             /\ IF next = 1 /\ g1.round > g1.maxRounds
                THEN /\ game' = [g1 EXCEPT !.status = "finished",
                                           !.playersReady = <<g1.ownerId>>]
                     /\ tasks' = Move(tasks, t, "finish")
                ELSE /\ game' = [resetGuessStatus(g1) EXCEPT !.currentDrawer = g1.players[next]]
                     /\ tasks' = Move(tasks, t, "words")
  /\ sent' = {}
  /\ UNCHANGED <<room, conn, joined, timers, env, probe>>

\* lines 459-466: the words arrived; the UPDATE reads game.currentDrawer.id
NextWords(t, words) ==
  /\ t.k = "next" /\ t.pc = "words"
  /\ game' = [game EXCEPT !.wordChoices = words,
                          !.currentWord = NoWord,
                          !.gamePhase = "choosing",
                          !.timeLeft = ChoiceTime,
                          !.drawingData = <<>>,
                          !.hints = <<>>]
  /\ tasks' = IF game.currentDrawer = Null THEN Finish(tasks, t) ELSE Move(tasks, t, "update")
  /\ sent' = {}
  /\ UNCHANGED <<room, conn, joined, timers, env, probe>>

\* what the caller of nextTurn emits when it returned: lines 562-566 (draw
\* timer), server.js 424-428 (all players guessed)
afterNextTurn(t, g, live, open, room_) ==
  IF ~live THEN {}
  ELSE emitGame("next-turn", g, room_)
         \cup (IF t.src = "draw" THEN emitGame("game-update", g, room_)
               ELSE broadcastGameUpdate(g, open))

\* lines 468-471
NextUpdated(t) ==
  /\ t.k = "next" /\ t.pc = "update"
  /\ timers' = startChoiceTimer(timers, game, Live)
  /\ BagCardinality(timers') <= MaxTimers
  /\ tasks' = Finish(tasks, t)
  /\ sent' = Deliver(emitWordChoices(game, joined) \cup afterNextTurn(t, game, Live, conn, joined))
  /\ UNCHANGED <<room, game, conn, joined, env, probe>>

\* lines 449-450: the game is finished and the UPDATE returned
NextFinished(t) ==
  /\ t.k = "next" /\ t.pc = "finish"
  /\ tasks' = Finish(tasks, t)
  /\ sent' = Deliver(afterNextTurn(t, game, Live, conn, joined))
  /\ UNCHANGED <<room, game, conn, joined, timers, env, probe>>

\* a statement of nextTurn throws: lines 472-477
NextFailed(t) ==
  /\ t.k = "next" /\ t.pc \in {"words", "update", "finish"}
  /\ tasks' = Finish(tasks, t)
  /\ sent' = {}
  /\ UNCHANGED <<room, game, conn, joined, timers, env, probe>>

(***************************************************************************)
(* The interval callbacks.                                                 *)
(***************************************************************************)
Max(a, b) == IF a >= b THEN a ELSE b

\* the callback of startChoiceTimer, lines 489-519
ChoiceTick(t) ==
  /\ t \in BagToSet(timers) /\ t.kind = "choice"
  /\ IF ~Live
     THEN /\ timers' = dropKey(timers (-) One(t), "choice")
          /\ sent' = {}
          /\ UNCHANGED <<game, tasks>>
     ELSE LET tl == Max(0, t.tl - 1)
              g1 == [game EXCEPT !.timeLeft = tl]
          IN /\ sent' = Deliver(emitGame("game-update", g1, joined))
             /\ IF tl > 0
                THEN /\ timers' = (timers (-) One(t)) (+) One([t EXCEPT !.tl = tl])
                     /\ game' = g1
                     /\ UNCHANGED tasks
                ELSE /\ timers' = dropKey(timers (-) One(t), "choice")
                     /\ IF g1.wordChoices # NoChoices
                        THEN /\ CanSpawn
                             /\ game' = selectWordSync(g1, g1.wordChoices[1])
                             /\ tasks' = Spawn(tasks, Task("select", "update", Null,
                                                          g1.wordChoices[1], "timer"))
                        ELSE /\ game' = g1
                             /\ UNCHANGED tasks
  /\ UNCHANGED <<room, conn, joined, env, probe>>

\* the callback of startDrawTimer, lines 538-571, with nextTurn to its pause
DrawTick(t) ==
  /\ t \in BagToSet(timers) /\ t.kind = "draw"
  /\ IF ~Live
     THEN /\ timers' = dropKey(timers (-) One(t), "draw")
          /\ sent' = {}
          /\ UNCHANGED <<game, tasks>>
     ELSE LET tl == Max(0, t.tl - 1)
              g1 == [game EXCEPT !.timeLeft = tl]
          IN IF tl > 0
             THEN /\ timers' = (timers (-) One(t)) (+) One([t EXCEPT !.tl = tl])
                  /\ game' = g1
                  /\ sent' = Deliver(emitGame("game-update", g1, joined))
                  /\ UNCHANGED tasks
             ELSE /\ CanSpawn
                  /\ timers' = nextTurnSync(dropKey(timers (-) One(t), "draw"))
                  /\ game' = resetGuessStatus(g1)
                  /\ tasks' = Spawn(tasks, Task("next", "pause", Null, <<>>, "draw"))
                  /\ sent' = Deliver(emitGame("game-update", g1, joined)
                               \cup emitRoundEnd(resetGuessStatus(g1), joined))
  /\ UNCHANGED <<room, conn, joined, env, probe>>

\* the callback of startHintTimer, lines 605-611: the timer stops itself
HintStop(t) ==
  /\ t \in BagToSet(timers) /\ t.kind = "hint"
  /\ ~Live \/ game.gamePhase # "drawing"
  /\ timers' = dropKey(timers (-) One(t), "hint")
  /\ sent' = {}
  /\ UNCHANGED <<room, game, conn, joined, tasks, env, probe>>

(***************************************************************************)
(* The points of a correct guess, checkGuess lines 690-705.                *)
(* game.timeLeft / game.drawTime and the product with 50 are JavaScript    *)
(* Number operations, that is IEEE 754 binary64 with rounding to nearest,  *)
(* ties to even.  A positive Number is kept as [sig, e], value             *)
(* sig * 2^(e - 52), with sig a 53-bit integer of three limbs              *)
(* <<hi, mid, lo>> of 13, 20 and 20 bits; zero has sig <<0, 0, 0>>.        *)
(***************************************************************************)
basePoints == 100
bonusFactor == 50
minPoints == 10
drawerPoints == 25

RECURSIVE Pow2(_)
Pow2(n) == IF n = 0 THEN 1 ELSE 2 * Pow2(n - 1)

Limb == Pow2(20)
TopLimb == Pow2(13)

FZero == [sig |-> <<0, 0, 0>>, e |-> 0]

\* sig + 1, renormalised when the carry leaves the 53 bits
FIncrement(x) ==
  LET lo  == (x.sig[3] + 1) % Limb
      c1  == (x.sig[3] + 1) \div Limb
      mid == (x.sig[2] + c1) % Limb
      c2  == (x.sig[2] + c1) \div Limb
      hi  == x.sig[1] + c2
  IN  IF hi = TopLimb
        THEN [sig |-> <<TopLimb \div 2, 0, 0>>, e |-> x.e + 1]
        ELSE [sig |-> <<hi, mid, lo>>, e |-> x.e]

\* t and d scaled by powers of two until d <= t < 2d, with the exponent
RECURSIVE FScale(_, _, _)
FScale(t, d, e) ==
  IF t < d THEN FScale(2 * t, d, e - 1)
  ELSE IF t >= 2 * d THEN FScale(t, 2 * d, e + 1)
  ELSE [t |-> t, d |-> d, e |-> e]

\* the Number t / d of two small non-negative integers, d > 0
FDivide(t, d) ==
  IF t = 0 THEN FZero
  ELSE
    LET n   == FScale(t, d, 0)
        x2  == n.t * (TopLimb \div 2)
        x1  == (x2 % n.d) * Limb
        x0  == (x1 % n.d) * Limb
        r   == x0 % n.d
        q   == [sig |-> <<x2 \div n.d, x1 \div n.d, x0 \div n.d>>, e |-> n.e]
    IN  IF 2 * r > n.d \/ (2 * r = n.d /\ q.sig[3] % 2 = 1)
          THEN FIncrement(q)
          ELSE q

\* the bits of hi above the 13 of a normalised significand
RECURSIVE FExtraBits(_)
FExtraBits(hi) == IF hi < TopLimb THEN 0 ELSE 1 + FExtraBits(hi \div 2)

\* the Number x * c for a small positive integer c
FTimes(x, c) ==
  IF x.sig = <<0, 0, 0>> THEN FZero
  ELSE
    LET c0  == x.sig[3] * c
        c1  == x.sig[2] * c + (c0 \div Limb)
        c2  == x.sig[1] * c + (c1 \div Limb)
        s   == FExtraBits(c2)
        p   == Pow2(s)
        up  == Limb \div p
        low == (c0 % Limb) % p
        q   == [sig |-> <<c2 \div p,
                          (c2 % p) * up + ((c1 % Limb) \div p),
                          ((c1 % Limb) % p) * up + ((c0 % Limb) \div p)>>,
                e |-> x.e + s]
    IN  IF 2 * low > p \/ (2 * low = p /\ q.sig[3] % 2 = 1)
          THEN FIncrement(q)
          ELSE q

\* Math.floor of a Number below 2^13
FFloor(x) ==
  IF x.e < 0 THEN 0 ELSE x.sig[1] \div Pow2(12 - x.e)

\* lines 690-692
guessPoints(timeLeft, drawTime) ==
  LET timeBonus == FFloor(FTimes(FDivide(timeLeft, drawTime), bonusFactor))
  IN  Max(minPoints, basePoints + timeBonus)

(***************************************************************************)
(* chat-message: server.js 380-466, processChatMessage, checkGuess.        *)
(***************************************************************************)
\* checkGuess, lines 683-684
isCorrect(g, guess) == Trim(ToLower(guess)) = ToLower(g.currentWord)

\* a score that is NaN or Infinity
NonFinite == -1

\* lines 690-692 on the game: a draw time of 0 makes the quotient NaN or
\* Infinity, and Math.floor, + and Math.max keep it
checkGuessPoints(g) ==
  IF g.drawTime = 0 THEN NonFinite ELSE guessPoints(g.timeLeft, g.drawTime)

\* score += points, lines 693 and 703, on the player object found in
\* game.players
addScore(g, p, points) ==
  IF env.points /\ p \in DOMAIN g.score
  THEN [g EXCEPT !.score[p] = IF @ = NonFinite \/ points = NonFinite
                               THEN NonFinite ELSE @ + points]
  ELSE g

\* player.hasGuessed = true, line 708, on the object the handler holds
markGuessed(g, t) == IF t.stale THEN g ELSE [g EXCEPT !.hasGuessed = @ \cup {t.c}]

Chat(c, message) ==
  /\ Live
  /\ c \in conn
  /\ c \in SeqToSet(game.players)
  /\ CanSpawn
  /\ tasks' = Spawn(tasks,
       IF game.currentWord = NoWord \/ game.gamePhase # "drawing"
            \/ (game.currentDrawer # Null /\ game.currentDrawer = c)
       THEN Task("chat", "save", c, message, "wrong")
       ELSE IF isCorrect(game, message)
            THEN Task("chat", "score1", c, message, "correct")
            ELSE Task("chat", "insert", c, message, "wrong"))
  /\ game' = IF game.currentWord # NoWord /\ game.gamePhase = "drawing"
                 /\ ~(game.currentDrawer # Null /\ game.currentDrawer = c)
                 /\ isCorrect(game, message)
              THEN addScore(game, c, checkGuessPoints(game)) ELSE game
  /\ sent' = {}
  /\ UNCHANGED <<room, conn, joined, timers, env, probe>>

\* checkGuess, lines 698-708: the guesser's score is stored; drawer.score += 25
ChatScored(t) ==
  /\ t.k = "chat" /\ t.pc = "score1"
  /\ IF game.currentDrawer = Null
     THEN \* game.currentDrawer.id throws: checkGuess returns false (line 718)
          /\ tasks' = (tasks (-) One(t)) (+) One([t EXCEPT !.pc = "save", !.src = "wrong"])
          /\ UNCHANGED game
     ELSE IF game.currentDrawer \in SeqToSet(game.players)
          THEN /\ tasks' = Move(tasks, t, "score2")
               /\ game' = addScore(game, game.currentDrawer, drawerPoints)
          ELSE /\ tasks' = Move(tasks, t, "insert")
               /\ game' = markGuessed(game, t)
  /\ sent' = {}
  /\ UNCHANGED <<room, conn, joined, timers, env, probe>>

\* checkGuess, lines 704-708: the drawer's score is stored
ChatDrawerScored(t) ==
  /\ t.k = "chat" /\ t.pc = "score2"
  /\ tasks' = Move(tasks, t, "insert")
  /\ game' = markGuessed(game, t)
  /\ sent' = {}
  /\ UNCHANGED <<room, conn, joined, timers, env, probe>>

\* a statement of checkGuess throws: lines 716-719, it returns false
ChatFailed(t) ==
  /\ t.k = "chat" /\ t.pc \in {"score1", "score2", "insert"}
  /\ tasks' = (tasks (-) One(t)) (+) One([t EXCEPT !.pc = "save", !.src = "wrong"])
  /\ sent' = {}
  /\ UNCHANGED <<room, game, conn, joined, timers, env, probe>>

\* server.js 404-415
correctGuess(g, open) ==
  {Msg("correct-guess", p, g.currentWord, NoChoices, <<>>, <<>>, g)
     : p \in getPlayersWhoCanSeeWord(g) \cap open}

\* checkGuess returned (line 715); server.js 402-435 and 458
ChatInserted(t) ==
  /\ t.k = "chat" /\ t.pc = "insert"
  /\ IF t.src = "correct" /\ game.currentDrawer = Null
     THEN \* game.currentDrawer.id throws: server.js 459-465
          /\ tasks' = Finish(tasks, t)
          /\ sent' = {}
     ELSE IF t.src = "correct" /\ t.c # game.currentDrawer
          THEN /\ tasks' = IF allPlayersGuessed(game)
                           THEN Spawn(Finish(tasks, t), Task("delay", "timeout", Null, <<>>, "chat"))
                           ELSE Finish(tasks, t)
               /\ sent' = Deliver(correctGuess(game, conn) \cup broadcastGameUpdate(game, conn))
          ELSE /\ tasks' = Move(tasks, t, "save")
               /\ sent' = {}
  /\ UNCHANGED <<room, game, conn, joined, timers, env, probe>>

\* server.js 441-455 with one text for all recipients: filtered when any
\* player may not see the word
chatMessagesShared(g, message, open) ==
  LET hide == \E q \in SeqToSet(g.players) : ~canPlayerSeeWord(g, q)
  IN {Msg("chat-message", p, NoWord, NoChoices,
          IF hide THEN filterChatMessage(message, g.currentWord) ELSE message, message, g)
        : p \in SeqToSet(g.players) \cap open}

\* server.js 441-455
chatMessages(g, message, open) ==
  {Msg("chat-message", p, NoWord, NoChoices,
       IF canPlayerSeeWord(g, p) THEN message ELSE filterChatMessage(message, g.currentWord),
       message, g)
     : p \in SeqToSet(g.players) \cap open}

\* saveMessage returned: server.js 438-458
ChatSaved(t) ==
  /\ t.k = "chat" /\ t.pc = "save"
  /\ tasks' = Finish(tasks, t)
  /\ sent' = Deliver(chatMessages(game, t.x, conn) \cup broadcastGameUpdate(game, conn))
  /\ UNCHANGED <<room, game, conn, joined, timers, env, probe>>

\* the setTimeout callback of server.js 420-434, with nextTurn to its pause
DelayFired(t) ==
  /\ t.k = "delay"
  /\ game' = resetGuessStatus(game)
  /\ IF Live
     THEN /\ timers' = nextTurnSync(timers)
          /\ tasks' = Spawn(Finish(tasks, t), Task("next", "pause", Null, <<>>, "chat"))
          /\ sent' = Deliver(emitRoundEnd(resetGuessStatus(game), joined))
     ELSE /\ tasks' = Finish(tasks, t)
          /\ sent' = {}
          /\ UNCHANGED timers
  /\ UNCHANGED <<room, conn, joined, env, probe>>

(***************************************************************************)
(* restart-game: server.js 490-509, GameService.restartGame, restartGame.  *)
(***************************************************************************)
\* restartGame, lines 862-880
restartGameSync(g, drawTime, maxRounds) ==
  [g EXCEPT !.currentWord = NoWord,
            !.wordChoices = NoChoices,
            !.currentDrawer = Null,
            !.round = 1,
            !.maxRounds = maxRounds,
            !.drawTime = drawTime,
            !.status = "waiting",
            !.gamePhase = "drawing",
            !.timeLeft = 0,
            !.drawingData = <<>>,
            !.hints = <<>>,
            !.playersReady = <<g.ownerId>>,
            !.score = [p \in DOMAIN @ |-> 0],
            !.hasGuessed = {}]

Restart(c, drawTime, maxRounds) ==
  /\ Live
  /\ c \in conn
  /\ game.ownerId = c
  /\ CanSpawn
  /\ timers' = clearGameTimers(timers)
  /\ game' = restartGameSync(game, drawTime, maxRounds)
  /\ tasks' = Spawn(tasks, Task("restart", "update", Null, <<>>, "client"))
  /\ sent' = {}
  /\ UNCHANGED <<room, conn, joined, env, probe>>

\* restartGame, line 888, and the handler, server.js 499-502
RestartUpdated(t) ==
  /\ t.k = "restart"
  /\ tasks' = Finish(tasks, t)
  /\ sent' = Deliver(emitGame("game-restarted", game, joined) \cup broadcastGameUpdate(game, conn))
  /\ UNCHANGED <<room, game, conn, joined, timers, env, probe>>

\* an UPDATE of restartGame throws: lines 889-892
RestartFailed(t) ==
  /\ t.k = "restart"
  /\ tasks' = Finish(tasks, t)
  /\ sent' = {}
  /\ UNCHANGED <<room, game, conn, joined, timers, env, probe>>

(***************************************************************************)
(* The server.                                                             *)
(***************************************************************************)
(***************************************************************************)
(* Spec: the turn engine.  Any connected socket sends join, start,         *)
(* word-select, restart and kick requests at any time and with any         *)
(* argument, every database statement may throw; no chat.                  *)
(***************************************************************************)
Next ==
  \/ \E c \in Sockets, dt \in DrawTimes, mr \in RoundSettings : CreateGame(c, dt, mr)
  \/ \E c \in Sockets : JoinGame(c)
  \/ \E c \in Sockets : Disconnect(c)
  \/ \E c \in Sockets, target \in Sockets : Kick(c, target)
  \/ \E c \in Sockets : StartGame(c)
  \/ \E c \in Sockets, w \in Words : SelectWord(c, w)
  \/ \E c \in Sockets, dt \in DrawTimes, mr \in RoundSettings : Restart(c, dt, mr)
  \/ \E t \in BagToSet(tasks) : JoinPersisted(t)
  \/ \E t \in BagToSet(tasks) : JoinFailed(t)
  \/ \E t \in BagToSet(tasks), ws \in WordLists : StartWords(t, ws)
  \/ \E t \in BagToSet(tasks) : StartUpdated(t)
  \/ \E t \in BagToSet(tasks) : StartFailed(t)
  \/ \E t \in BagToSet(tasks) : SelectUpdated(t)
  \/ \E t \in BagToSet(tasks) : SelectFailed(t)
  \/ \E t \in BagToSet(tasks) : NextPaused(t)
  \/ \E t \in BagToSet(tasks), ws \in WordLists : NextWords(t, ws)
  \/ \E t \in BagToSet(tasks) : NextUpdated(t)
  \/ \E t \in BagToSet(tasks) : NextFinished(t)
  \/ \E t \in BagToSet(tasks) : NextFailed(t)
  \/ \E t \in BagToSet(tasks) : RestartUpdated(t)
  \/ \E t \in BagToSet(tasks) : RestartFailed(t)
  \/ \E t \in BagToSet(timers) : ChoiceTick(t)
  \/ \E t \in BagToSet(timers) : DrawTick(t)
  \/ \E t \in BagToSet(timers) : HintStop(t)

Spec == Init /\ [][Next]_vars

(***************************************************************************)
(* SpecView: what the sockets receive.  Deliveries are recorded; the       *)
(* database fails only under checkGuess, the words table is not empty,     *)
(* nobody restarts, and only members are kicked.                           *)
(***************************************************************************)
NextView ==
  \/ \E c \in Sockets, dt \in DrawTimes, mr \in RoundSettings : CreateGame(c, dt, mr)
  \/ \E c \in Sockets : JoinGame(c)
  \/ \E c \in Sockets : Disconnect(c)
  \/ \E c \in Sockets, target \in SeqToSet(game.players) : Kick(c, target)
  \/ \E c \in Sockets : StartGame(c)
  \/ \E c \in Sockets, w \in Words : SelectWord(c, w)
  \/ \E c \in Sockets, m \in Messages : Chat(c, m)
  \/ \E t \in BagToSet(tasks) : JoinPersisted(t)
  \/ \E t \in BagToSet(tasks), ws \in WordLists \ {<<>>} : StartWords(t, ws)
  \/ \E t \in BagToSet(tasks) : StartUpdated(t)
  \/ \E t \in BagToSet(tasks) : SelectUpdated(t)
  \/ \E t \in BagToSet(tasks) : NextPaused(t)
  \/ \E t \in BagToSet(tasks), ws \in WordLists \ {<<>>} : NextWords(t, ws)
  \/ \E t \in BagToSet(tasks) : NextUpdated(t)
  \/ \E t \in BagToSet(tasks) : NextFinished(t)
  \/ \E t \in BagToSet(tasks) : ChatScored(t)
  \/ \E t \in BagToSet(tasks) : ChatDrawerScored(t)
  \/ \E t \in BagToSet(tasks) : ChatFailed(t)
  \/ \E t \in BagToSet(tasks) : ChatInserted(t)
  \/ \E t \in BagToSet(tasks) : ChatSaved(t)
  \/ \E t \in BagToSet(tasks) : DelayFired(t)
  \/ \E t \in BagToSet(timers) : ChoiceTick(t)
  \/ \E t \in BagToSet(timers) : DrawTick(t)
  \/ \E t \in BagToSet(timers) : HintStop(t)

SpecView == InitWith(Sockets, TRUE, MaxTasks) /\ [][NextView]_vars

(***************************************************************************)
(* SpecVis: canPlayerSeeWord on its own.  Init draws a game and a viewer,  *)
(* the one action calls the function twice and sanitizeGameForPlayer once  *)
(* and keeps what they returned; the calls assign to no field of game.     *)
(***************************************************************************)
VisGames ==
  {[newGame(MaxDrawTime, MaxRoundsBound) EXCEPT
      !.players = [i \in Sockets |-> i], !.ownerId = 1, !.status = st, !.gamePhase = ph,
      !.currentWord = w, !.currentDrawer = d, !.hasGuessed = hg]
     : st \in {"waiting", "playing", "finished"},
       ph \in {"choosing", "drawing", "results"},
       w \in {NoWord, Cat},
       d \in {Null} \cup Sockets,
       hg \in SUBSET Sockets}

InitVis ==
  /\ room = "live"
  /\ game \in VisGames
  /\ conn = Sockets
  /\ joined = Sockets
  /\ timers = EmptyBag
  /\ tasks = EmptyBag
  /\ sent = {}
  /\ env = [observe |-> FALSE, maxTasks |-> 0, points |-> FALSE]
  /\ probe \in {[fn |-> "input", playerId |-> p] : p \in Sockets}

SeeWord ==
  /\ probe.fn = "input"
  /\ probe' = [fn |-> "canPlayerSeeWord",
               playerId |-> probe.playerId,
               game |-> game,
               first |-> canPlayerSeeWord(game, probe.playerId),
               second |-> canPlayerSeeWord(game, probe.playerId),
               sanitized |-> sanitizeGameForPlayer(game, probe.playerId)]
  /\ UNCHANGED <<room, game, conn, joined, timers, tasks, sent, env>>

NextVis == SeeWord

SpecVis == InitVis /\ [][NextVis]_vars

(***************************************************************************)
(* SpecRace: two handlers may be suspended at one time.  The clients       *)
(* behave: start is sent for a waiting room, word-select by the drawer     *)
(* while it chooses, for an offered word; the database never fails.  The   *)
(* owner may restart and sockets may disconnect at any time.               *)
(***************************************************************************)
\* word-select as the client of the drawer sends it
DrawerSelects(c, w) ==
  /\ game.status = "playing"
  /\ game.gamePhase = "choosing"
  /\ game.currentDrawer = c
  /\ w \in SeqToSet(game.wordChoices)
  /\ SelectWord(c, w)

\* start-game as the client of the owner sends it, from the lobby
OwnerStarts(c) ==
  /\ game.status = "waiting"
  /\ StartGame(c)

\* join-game from a socket that is not in the room, before the game starts
Joins(c) ==
  /\ game.status = "waiting"
  /\ c \notin SeqToSet(game.players)
  /\ tasks = EmptyBag
  /\ JoinGame(c)

\* a chat text that is the word, from a player who is not drawing
Guesses(c, m) ==
  /\ game.currentDrawer # c
  /\ isCorrect(game, m)
  /\ Chat(c, m)

NextRace ==
  \/ \E c \in Sockets, dt \in DrawTimes, mr \in RoundSettings : CreateGame(c, dt, mr)
  \/ \E c \in Sockets : Joins(c)
  \/ \E c \in Sockets : Disconnect(c)
  \/ \E c \in Sockets : OwnerStarts(c)
  \/ \E c \in Sockets, w \in Words : DrawerSelects(c, w)
  \/ \E c \in Sockets, dt \in DrawTimes, mr \in RoundSettings : Restart(c, dt, mr)
  \/ \E t \in BagToSet(tasks) : JoinPersisted(t)
  \/ \E t \in BagToSet(tasks), ws \in WordLists \ {<<>>} : StartWords(t, ws)
  \/ \E t \in BagToSet(tasks) : StartUpdated(t)
  \/ \E t \in BagToSet(tasks) : SelectUpdated(t)
  \/ \E t \in BagToSet(tasks) : NextPaused(t)
  \/ \E t \in BagToSet(tasks), ws \in WordLists \ {<<>>} : NextWords(t, ws)
  \/ \E t \in BagToSet(tasks) : NextUpdated(t)
  \/ \E t \in BagToSet(tasks) : NextFinished(t)
  \/ \E t \in BagToSet(tasks) : RestartUpdated(t)
  \/ \E c \in Sockets, m \in Messages : Guesses(c, m)
  \/ \E t \in BagToSet(tasks) : ChatScored(t)
  \/ \E t \in BagToSet(tasks) : ChatDrawerScored(t)
  \/ \E t \in BagToSet(tasks) : ChatInserted(t)
  \/ \E t \in BagToSet(tasks) : ChatSaved(t)
  \/ \E t \in BagToSet(tasks) : DelayFired(t)
  \/ \E t \in BagToSet(timers) : ChoiceTick(t)
  \/ \E t \in BagToSet(timers) : DrawTick(t)
  \/ \E t \in BagToSet(timers) : HintStop(t)

SpecRace == InitWith(Sockets, FALSE, MaxTasks + 1) /\ [][NextRace]_vars

(***************************************************************************)
(* SpecTurns: whole games.  Up to three players join a waiting room and    *)
(* stay, the owner starts it, the drawer selects one of the offered words  *)
(* or lets the choice timer run out, the draw timer ends every turn; the   *)
(* database never fails.                                                   *)
(***************************************************************************)
TurnSockets == 1..(MaxConns + 1)
TurnRounds == 1..(MaxRoundsBound + 1)

NextTurns ==
  \/ \E c \in TurnSockets, dt \in DrawTimes, mr \in TurnRounds : CreateGame(c, dt, mr)
  \/ \E c \in TurnSockets : Joins(c)
  \/ \E c \in TurnSockets : OwnerStarts(c)
  \/ \E c \in TurnSockets, w \in Words : DrawerSelects(c, w)
  \/ \E t \in BagToSet(tasks) : JoinPersisted(t)
  \/ \E t \in BagToSet(tasks), ws \in WordLists \ {<<>>} : StartWords(t, ws)
  \/ \E t \in BagToSet(tasks) : StartUpdated(t)
  \/ \E t \in BagToSet(tasks) : SelectUpdated(t)
  \/ \E t \in BagToSet(tasks) : NextPaused(t)
  \/ \E t \in BagToSet(tasks), ws \in WordLists \ {<<>>} : NextWords(t, ws)
  \/ \E t \in BagToSet(tasks) : NextUpdated(t)
  \/ \E t \in BagToSet(tasks) : NextFinished(t)
  \/ \E t \in BagToSet(timers) : ChoiceTick(t)
  \/ \E t \in BagToSet(timers) : DrawTick(t)

SpecTurns == InitWith(TurnSockets, FALSE, MaxTasks) /\ [][NextTurns]_vars

(***************************************************************************)
(* SpecLeave: SpecTurns with sockets that disconnect, and an owner that    *)
(* kicks, at any time.                                                     *)
(***************************************************************************)
NextLeave ==
  \/ \E c \in TurnSockets, dt \in DrawTimes, mr \in TurnRounds : CreateGame(c, dt, mr)
  \/ \E c \in TurnSockets : Joins(c)
  \/ \E c \in TurnSockets : Disconnect(c)
  \/ \E c \in TurnSockets, target \in TurnSockets : Kick(c, target)
  \/ \E c \in TurnSockets : OwnerStarts(c)
  \/ \E c \in TurnSockets, w \in Words : DrawerSelects(c, w)
  \/ \E t \in BagToSet(tasks) : JoinPersisted(t)
  \/ \E t \in BagToSet(tasks), ws \in WordLists \ {<<>>} : StartWords(t, ws)
  \/ \E t \in BagToSet(tasks) : StartUpdated(t)
  \/ \E t \in BagToSet(tasks) : SelectUpdated(t)
  \/ \E t \in BagToSet(tasks) : NextPaused(t)
  \/ \E t \in BagToSet(tasks), ws \in WordLists \ {<<>>} : NextWords(t, ws)
  \/ \E t \in BagToSet(tasks) : NextUpdated(t)
  \/ \E t \in BagToSet(tasks) : NextFinished(t)
  \/ \E t \in BagToSet(timers) : ChoiceTick(t)
  \/ \E t \in BagToSet(timers) : DrawTick(t)

SpecLeave == InitWith(TurnSockets, FALSE, MaxTasks) /\ [][NextLeave]_vars

(***************************************************************************)
(* SpecSettings: the settings of a room.  A client sends any number or     *)
(* nothing for drawTime and for maxRounds, when it creates the room and    *)
(* when it restarts it.  A field the client left out is Undefined.         *)
(***************************************************************************)
MinDrawTime == 30
MaxDrawTimeSetting == 300
defaultDrawTime == 80
defaultMaxRounds == 3
MinRoundsSetting == 1
MaxRoundsSetting == 10
Undefined == -1

SettingValues(lo, hi, default) == {Undefined, lo - 1, lo, default, hi, hi + 1}

ClientSettings ==
  [drawTime : SettingValues(MinDrawTime, MaxDrawTimeSetting, defaultDrawTime),
   maxRounds : SettingValues(MinRoundsSetting, MaxRoundsSetting, defaultMaxRounds)]

\* validateGameSettings, validation.js 86-106
validateGameSettings(settings) ==
  [drawTime |-> IF settings.drawTime # Undefined
                    /\ settings.drawTime >= MinDrawTime
                    /\ settings.drawTime <= MaxDrawTimeSetting
                THEN settings.drawTime ELSE defaultDrawTime,
   maxRounds |-> IF settings.maxRounds # Undefined
                     /\ settings.maxRounds >= MinRoundsSetting
                     /\ settings.maxRounds <= MaxRoundsSetting
                 THEN settings.maxRounds ELSE defaultMaxRounds]

\* const { drawTime = 80, maxRounds = 3 } = settings, lines 259 and 856
destructureSettings(settings) ==
  [drawTime |-> IF settings.drawTime = Undefined THEN defaultDrawTime ELSE settings.drawTime,
   maxRounds |-> IF settings.maxRounds = Undefined THEN defaultMaxRounds ELSE settings.maxRounds]

\* join-game for a new room code: server.js 257-271
CreateWithSettings(c, settings) ==
  LET s == destructureSettings(validateGameSettings(settings))
  IN CreateGame(c, s.drawTime, s.maxRounds)

\* restart-game: server.js 490-509, the settings go to restartGame as sent
RestartWithSettings(c, settings) ==
  LET s == destructureSettings(settings)
  IN Restart(c, s.drawTime, s.maxRounds)

NextSettings ==
  \/ \E c \in Sockets, s \in ClientSettings : CreateWithSettings(c, s)
  \/ \E c \in Sockets : Joins(c)
  \/ \E c \in Sockets, s \in ClientSettings : RestartWithSettings(c, s)
  \/ \E t \in BagToSet(tasks) : JoinPersisted(t)
  \/ \E t \in BagToSet(tasks) : RestartUpdated(t)

SpecSettings == InitWith(Sockets, FALSE, MaxTasks) /\ [][NextSettings]_vars

(***************************************************************************)
(* SpecDraw: whole games of two players as in SpecTurns, with drawing and  *)
(* clear-canvas events that any connected socket sends at any time.        *)
(***************************************************************************)
MaxStrokes == 2
drawingLimit == 5000
drawingKept == 4000

\* drawing: server.js 332-361, for data that validateDrawingData accepts
Drawing(c) ==
  /\ Live
  /\ c \in conn
  /\ game.currentDrawer # Null
  /\ game.currentDrawer = c
  /\ game.status = "playing"
  /\ Len(game.drawingData) < MaxStrokes
  /\ LET kept == IF Len(game.drawingData) > drawingLimit
                 THEN SubSeq(game.drawingData,
                             Len(game.drawingData) - drawingKept + 1,
                             Len(game.drawingData))
                 ELSE game.drawingData
     IN game' = [game EXCEPT !.drawingData = Append(kept, "line")]
  /\ sent' = {}
  /\ UNCHANGED <<room, conn, joined, timers, tasks, env, probe>>

\* clear-canvas: server.js 363-378
ClearCanvas(c) ==
  /\ Live
  /\ c \in conn
  /\ game.currentDrawer # Null
  /\ game.currentDrawer = c
  /\ game.status = "playing"
  /\ game' = [game EXCEPT !.drawingData = <<>>]
  /\ sent' = {}
  /\ UNCHANGED <<room, conn, joined, timers, tasks, env, probe>>

NextDraw ==
  \/ \E c \in Sockets, dt \in DrawTimes, mr \in RoundSettings : CreateGame(c, dt, mr)
  \/ \E c \in Sockets : Joins(c)
  \/ \E c \in Sockets : OwnerStarts(c)
  \/ \E c \in Sockets, w \in Words : DrawerSelects(c, w)
  \/ \E c \in Sockets : Drawing(c)
  \/ \E c \in Sockets : ClearCanvas(c)
  \/ \E t \in BagToSet(tasks) : JoinPersisted(t)
  \/ \E t \in BagToSet(tasks), ws \in WordLists \ {<<>>} : StartWords(t, ws)
  \/ \E t \in BagToSet(tasks) : StartUpdated(t)
  \/ \E t \in BagToSet(tasks) : SelectUpdated(t)
  \/ \E t \in BagToSet(tasks) : NextPaused(t)
  \/ \E t \in BagToSet(tasks), ws \in WordLists \ {<<>>} : NextWords(t, ws)
  \/ \E t \in BagToSet(tasks) : NextUpdated(t)
  \/ \E t \in BagToSet(tasks) : NextFinished(t)
  \/ \E t \in BagToSet(timers) : ChoiceTick(t)
  \/ \E t \in BagToSet(timers) : DrawTick(t)

SpecDraw == InitWith(Sockets, FALSE, MaxTasks) /\ [][NextDraw]_vars

(***************************************************************************)
(* SpecScore: the points of a correct guess, checkGuess lines 690-705, on  *)
(* their own, for every draw time a room may be created with.              *)
(***************************************************************************)
ScoreInputs ==
  {[fn |-> "input", drawTime |-> d, timeLeft |-> t, guesser |-> a, drawer |-> b]
     : d \in MinDrawTime..MaxDrawTimeSetting, t \in 0..MaxDrawTimeSetting,
       a \in {0}, b \in {0}}

InitScore ==
  /\ room = "live"
  /\ game = newGame(MaxDrawTime, MaxRoundsBound)
  /\ conn = Sockets
  /\ joined = Sockets
  /\ timers = EmptyBag
  /\ tasks = EmptyBag
  /\ sent = {}
  /\ env = [observe |-> FALSE, maxTasks |-> 0, points |-> FALSE]
  /\ probe \in {i \in ScoreInputs : i.timeLeft <= i.drawTime}

\* a correct guess of a player, the drawer being in game.players:
\* player.score += points (693), drawer.score += 25 (703)
ScoreGuess ==
  /\ probe.fn = "input"
  /\ probe' = [fn |-> "checkGuess",
               drawTime |-> probe.drawTime,
               timeLeft |-> probe.timeLeft,
               before |-> [guesser |-> probe.guesser, drawer |-> probe.drawer],
               guesser |-> probe.guesser + guessPoints(probe.timeLeft, probe.drawTime),
               drawer |-> probe.drawer + drawerPoints]
  /\ UNCHANGED <<room, game, conn, joined, timers, tasks, sent, env>>

NextScore == ScoreGuess

SpecScore == InitScore /\ [][NextScore]_vars

(***************************************************************************)
(* SpecFilter: filterChatMessage of utils/gameSanitizer.js on its own.     *)
(* Init draws a message and a secret word: a plain word, a word that ends  *)
(* with a regular-expression metacharacter and a word with a space in it.  *)
(***************************************************************************)
MsgLen == 5
FilterAlphabet == {"a", "t", "A", "s", " ", "+"}
SecretWords == {<<"a", "t">>, <<"a", "+">>, <<"a", " ", "t">>}

InitFilter ==
  /\ room = "none"
  /\ game = newGame(MaxDrawTime, MaxRoundsBound)
  /\ conn = Sockets
  /\ joined = {}
  /\ timers = EmptyBag
  /\ tasks = EmptyBag
  /\ sent = {}
  /\ env = [observe |-> FALSE, maxTasks |-> 0, points |-> FALSE]
  /\ probe \in {[fn |-> "input", message |-> m, currentWord |-> w]
                  : m \in UNION {[1..n -> FilterAlphabet] : n \in 0..MsgLen},
                    w \in SecretWords}

FilterChat ==
  /\ probe.fn = "input"
  /\ probe' = [fn |-> "filterChatMessage",
               message |-> probe.message,
               currentWord |-> probe.currentWord,
               result |-> filterChatMessage(probe.message, probe.currentWord)]
  /\ UNCHANGED <<room, game, conn, joined, timers, tasks, sent, env>>

NextFilter == FilterChat

SpecFilter == InitFilter /\ [][NextFilter]_vars

(***************************************************************************)
(* SpecHints: one drawing turn of startHintTimer, lines 576-641.  probe    *)
(* holds the closure of the timer: word, hintInterval, maxHints, the       *)
(* shuffled positions and hintsRevealed, with the hints of the game and    *)
(* the seconds that passed since startTime.  The wall clock and the ticks  *)
(* of the interval advance independently: a tick may fire any time late.   *)
(***************************************************************************)
\* lines 621-631, before .join(" ")
revealHints(word, shuffled, n) ==
  [i \in 1..Len(word) |->
     IF word[i] = " " THEN "     "
     ELSE IF \E k \in 1..Len(shuffled) : k <= n /\ shuffled[k] = i THEN word[i]
     ELSE "_"]

InitHints ==
  /\ room = "none"
  /\ game = newGame(MinDrawTime, MaxRoundsBound)
  /\ conn = Sockets
  /\ joined = {}
  /\ timers = EmptyBag
  /\ tasks = EmptyBag
  /\ sent = {}
  /\ env = [observe |-> FALSE, maxTasks |-> 0, points |-> FALSE]
  /\ probe \in {[fn |-> "input", word |-> w]
                  : w \in Words \cup {<<"t", "a", " ", "c", "o">>}}

\* selectWord, lines 373-386, and startHintTimer up to setInterval
StartHints ==
  /\ probe.fn = "input"
  /\ LET word == probe.word
         g == selectWordSync(game, word)
         maxHints == Len(word) \div 2
         charPositions == {i \in 1..Len(word) : word[i] # " "}
         n == Cardinality(charPositions)
     IN \E shuffled \in {p \in [1..n -> charPositions] :
                            \A a, b \in 1..n : p[a] = p[b] => a = b} :
          probe' = [fn |-> "startHintTimer",
                    word |-> word,
                    running |-> Len(word) > 3,
                    maxHints |-> maxHints,
                    hintInterval |-> g.drawTime \div (maxHints + 1),
                    totalTime |-> g.drawTime,
                    shuffledPositions |-> shuffled,
                    hintsRevealed |-> 0,
                    hints |-> g.hints,
                    timeElapsed |-> 0]
  /\ UNCHANGED <<room, game, conn, joined, timers, tasks, sent, env>>

\* Date.now() advances by a second, up to the end of the turn
TimePasses ==
  /\ probe.fn = "startHintTimer"
  /\ probe.timeElapsed < probe.totalTime
  /\ probe' = [probe EXCEPT !.timeElapsed = @ + 1]
  /\ UNCHANGED <<room, game, conn, joined, timers, tasks, sent, env>>

\* the callback of the interval, lines 612-636; the room stays in the drawing
\* phase of this turn, so the test of lines 607-611 does not stop the timer
HintTick ==
  /\ probe.fn = "startHintTimer"
  /\ probe.running
  /\ LET shouldRevealHints == probe.timeElapsed \div probe.hintInterval
     IN /\ shouldRevealHints > probe.hintsRevealed
        /\ probe.hintsRevealed < probe.maxHints
        /\ probe' = [probe EXCEPT
                       !.hintsRevealed = shouldRevealHints,
                       !.hints = revealHints(probe.word, probe.shuffledPositions,
                                             shouldRevealHints)]
  /\ UNCHANGED <<room, game, conn, joined, timers, tasks, sent, env>>

NextHints == StartHints \/ TimePasses \/ HintTick

SpecHints == InitHints /\ [][NextHints]_vars

(***************************************************************************)
(* SpecLimit: RateLimiter.checkLimit for one key userId:action, called     *)
(* with maxRequests = LimitMax and windowMs = LimitWindow while the clock  *)
(* runs to MaxNow.  probe holds the entry of the key in this.limits, the   *)
(* clock, what the last call returned and, for every time, the number of   *)
(* calls that returned true then.                                          *)
(***************************************************************************)
LimitMax == 2
LimitWindow == 2
MaxNow == 5

InitLimit ==
  /\ room = "none"
  /\ game = newGame(MaxDrawTime, MaxRoundsBound)
  /\ conn = Sockets
  /\ joined = {}
  /\ timers = EmptyBag
  /\ tasks = EmptyBag
  /\ sent = {}
  /\ env = [observe |-> FALSE, maxTasks |-> 0, points |-> FALSE]
  /\ probe = [fn |-> "checkLimit",
              has |-> FALSE, count |-> 0, resetTime |-> 0,
              now |-> 0,
              result |-> "none",
              allowed |-> [t \in 0..MaxNow |-> 0]]

\* Date.now() advances
ClockTick ==
  /\ probe.fn = "checkLimit"
  /\ probe.now < MaxNow
  /\ probe' = [probe EXCEPT !.now = @ + 1]
  /\ UNCHANGED <<room, game, conn, joined, timers, tasks, sent, env>>

\* checkLimit, rateLimiter.js 9-37
CheckLimit ==
  /\ probe.fn = "checkLimit"
  /\ LET now == probe.now
         yes(p) == [p EXCEPT !.result = "true", !.allowed[now] = @ + 1]
     IN probe' =
          IF ~probe.has
          THEN yes([probe EXCEPT !.has = TRUE, !.count = 1,
                                 !.resetTime = now + LimitWindow])
          ELSE IF now > probe.resetTime
          THEN yes([probe EXCEPT !.count = 1, !.resetTime = now + LimitWindow])
          ELSE IF probe.count < LimitMax
          THEN yes([probe EXCEPT !.count = @ + 1])
          ELSE [probe EXCEPT !.result = "false"]
  /\ UNCHANGED <<room, game, conn, joined, timers, tasks, sent, env>>

NextLimit == ClockTick \/ CheckLimit

SpecLimit == InitLimit /\ [][NextLimit]_vars

(***************************************************************************)
(* SpecPoints: the scores of the players.  Up to three players play whole  *)
(* games as in SpecTurns and guess the word; env.points is set, so that    *)
(* the additions of checkGuess are followed.  The owner restarts with the  *)
(* draw time of the room or with 0, which restartGame takes as sent.  The  *)
(* players stop guessing when a score reaches MaxScore.                    *)
(***************************************************************************)
MaxScore == 150

InitPoints ==
  /\ room = "none"
  /\ game = newGame(MaxDrawTime, MaxRoundsBound)
  /\ conn = TurnSockets
  /\ joined = {}
  /\ timers = EmptyBag
  /\ tasks = EmptyBag
  /\ sent = {}
  /\ env = [observe |-> FALSE, maxTasks |-> MaxTasks, points |-> TRUE]
  /\ probe = NoProbe

NextPoints ==
  \/ \E c \in TurnSockets, dt \in DrawTimes, mr \in RoundSettings : CreateGame(c, dt, mr)
  \/ \E c \in TurnSockets : Joins(c)
  \/ \E c \in TurnSockets : OwnerStarts(c)
  \/ \E c \in TurnSockets, w \in Words : DrawerSelects(c, w)
  \/ \E c \in TurnSockets, dt \in DrawTimes \cup {0}, mr \in RoundSettings : Restart(c, dt, mr)
  \/ \E t \in BagToSet(tasks) : JoinPersisted(t)
  \/ \E t \in BagToSet(tasks), ws \in WordLists \ {<<>>} : StartWords(t, ws)
  \/ \E t \in BagToSet(tasks) : StartUpdated(t)
  \/ \E t \in BagToSet(tasks) : SelectUpdated(t)
  \/ \E t \in BagToSet(tasks) : NextPaused(t)
  \/ \E t \in BagToSet(tasks), ws \in WordLists \ {<<>>} : NextWords(t, ws)
  \/ \E t \in BagToSet(tasks) : NextUpdated(t)
  \/ \E t \in BagToSet(tasks) : NextFinished(t)
  \/ \E t \in BagToSet(tasks) : RestartUpdated(t)
  \/ \E c \in TurnSockets, m \in Messages :
        /\ \A p \in DOMAIN game.score : game.score[p] < MaxScore
        /\ Guesses(c, m)
  \/ \E t \in BagToSet(tasks) : ChatScored(t)
  \/ \E t \in BagToSet(tasks) : ChatDrawerScored(t)
  \/ \E t \in BagToSet(tasks) : ChatInserted(t)
  \/ \E t \in BagToSet(tasks) : DelayFired(t)
  \/ \E t \in BagToSet(timers) : ChoiceTick(t)
  \/ \E t \in BagToSet(timers) : DrawTick(t)

SpecPoints == InitPoints /\ [][NextPoints]_vars

(***************************************************************************)
(* SpecRehydrate: getGameByRoomCode, lines 754-806, for a room that is in  *)
(* the database and not in GameManager.games (the process restarted, or    *)
(* removePlayer deleted the room when its last player left).  probe.row    *)
(* is what the two SELECTs return: the games row and the game_players      *)
(* rows with their scores.                                                 *)
(***************************************************************************)
\* getGameByRoomCode that leaves hints empty
getGameByRoomCodeNoHints(row) ==
  [ownerId |-> row.owner_id,
   players |-> row.players,
   score |-> row.score,
   hasGuessed |-> {},
   playersReady |-> <<>>,
   bannedPlayers |-> {},
   currentWord |-> row.current_word,
   wordChoices |-> NoChoices,
   currentDrawer |-> IF row.current_drawer \in SeqToSet(row.players)
                     THEN row.current_drawer ELSE Null,
   round |-> row.round,
   maxRounds |-> row.max_rounds,
   drawTime |-> defaultDrawTime,
   status |-> row.status,
   gamePhase |-> "drawing",
   timeLeft |-> IF row.status = "playing" THEN defaultDrawTime ELSE 0,
   drawingData |-> <<>>,
   hints |-> <<>>]

\* lines 772-798: the object stored in GameManager.games
getGameByRoomCode(row) ==
  [ownerId |-> row.owner_id,
   players |-> row.players,
   score |-> row.score,
   hasGuessed |-> {},
   playersReady |-> <<>>,
   bannedPlayers |-> {},
   currentWord |-> row.current_word,
   wordChoices |-> NoChoices,
   currentDrawer |-> IF row.current_drawer \in SeqToSet(row.players)
                     THEN row.current_drawer ELSE Null,
   round |-> row.round,
   maxRounds |-> row.max_rounds,
   drawTime |-> defaultDrawTime,
   status |-> row.status,
   gamePhase |-> "drawing",
   timeLeft |-> IF row.status = "playing" THEN defaultDrawTime ELSE 0,
   drawingData |-> <<>>,
   hints |-> IF row.current_word # NoWord
             THEN [i \in 1..Len(row.current_word) |-> "_"] ELSE <<>>]

InitRehydrate ==
  /\ room = "deleted"
  /\ game = newGame(MaxDrawTime, MaxRoundsBound)
  /\ conn = Sockets
  /\ joined = {}
  /\ timers = EmptyBag
  /\ tasks = EmptyBag
  /\ sent = {}
  /\ env = [observe |-> FALSE, maxTasks |-> 0, points |-> FALSE]
  /\ \E ps \in {<<1>>, <<1, 2>>, <<2, 1>>} :
       probe \in [fn : {"row"},
                  row : [owner_id : {ps[1]},
                         players : {ps},
                         score : [SeqToSet(ps) -> {0, basePoints + drawerPoints}],
                         current_word : {NoWord} \cup Words,
                         current_drawer : {Null} \cup Sockets,
                         round : 1..RoundCap,
                         max_rounds : {MaxRoundsBound},
                         status : {"waiting", "playing", "finished"}]]

\* join-game for the room code of the row: GameService.createOrJoinGame, line 12
Rehydrate ==
  /\ probe.fn = "row"
  /\ room' = "live"
  /\ game' = getGameByRoomCode(probe.row)
  /\ probe' = [probe EXCEPT !.fn = "getGameByRoomCode"]
  /\ UNCHANGED <<conn, joined, timers, tasks, sent, env>>

SpecRehydrate == InitRehydrate /\ [][Rehydrate]_vars

(***************************************************************************)
(* SpecCap: the cap of drawingData.  Init is a room of two players in a    *)
(* drawing turn whose drawer has sent up to drawingLimit + 1 events since  *)
(* the turn began; the events are numbered in the order they were sent and *)
(* probe.next is the number of the next one.  The drawer sends up to       *)
(* MaxStrokes more, the draw timer ends the turn and the owner restarts.   *)
(***************************************************************************)
CapBelow == 20

\* handleDrawing that keeps the oldest events
handleDrawingOldest(drawingData, event) ==
  Append(IF Len(drawingData) > drawingLimit
         THEN SubSeq(drawingData, 1, drawingKept)
         ELSE drawingData,
         event)

\* server.js 353-357 and GameService.handleDrawing, lines 66-71
handleDrawing(drawingData, event) ==
  Append(IF Len(drawingData) > drawingLimit
         THEN SubSeq(drawingData, Len(drawingData) - drawingKept + 1, Len(drawingData))
         ELSE drawingData,
         event)

InitCap ==
  /\ room = "live"
  /\ \E n \in (drawingLimit - CapBelow)..(drawingLimit + 1) :
       /\ game = [newGame(MaxDrawTime, MaxRoundsBound) EXCEPT
                    !.ownerId = 1,
                    !.players = <<1, 2>>,
                    !.score = [p \in {1, 2} |-> 0],
                    !.currentDrawer = 1,
                    !.currentWord = Cat,
                    !.hints = initialHints(Cat),
                    !.status = "playing",
                    !.timeLeft = 1,
                    !.drawingData = [i \in 1..n |-> i]]
       /\ probe = [fn |-> "drawing", next |-> n + 1, left |-> MaxStrokes]
  /\ conn = {1, 2}
  /\ joined = {1, 2}
  /\ timers = One(Timer("draw", 1, TRUE))
  /\ tasks = EmptyBag
  /\ sent = {}
  /\ env = [observe |-> FALSE, maxTasks |-> MaxTasks, points |-> FALSE]

\* drawing: server.js 332-361, for the next event of the drawer
DrawingLogged(c) ==
  /\ Live
  /\ c \in conn
  /\ game.currentDrawer # Null
  /\ game.currentDrawer = c
  /\ game.status = "playing"
  /\ probe.left > 0
  /\ game' = [game EXCEPT !.drawingData = handleDrawing(@, probe.next)]
  /\ probe' = [probe EXCEPT !.next = @ + 1, !.left = @ - 1]
  /\ sent' = {}
  /\ UNCHANGED <<room, conn, joined, timers, tasks, env>>

NextCap ==
  \/ \E c \in Sockets : DrawingLogged(c)
  \/ \E c \in Sockets, dt \in DrawTimes, mr \in RoundSettings : Restart(c, dt, mr)
  \/ \E t \in BagToSet(tasks) : RestartUpdated(t)
  \/ \E t \in BagToSet(timers) : DrawTick(t)
  \/ \E t \in BagToSet(tasks) : NextPaused(t)
  \/ \E t \in BagToSet(tasks), ws \in WordLists \ {<<>>} : NextWords(t, ws)
  \/ \E t \in BagToSet(tasks) : NextUpdated(t)

SpecCap == InitCap /\ [][NextCap]_vars

(***************************************************************************)
(* SpecFair: games that go on.  The players stay connected, nobody         *)
(* restarts and the database answers; any player may send word-select for  *)
(* any word at any time of a playing room (while the timers it starts fit  *)
(* MaxTimers) and any player may send any chat text, the word or not.      *)
(* Node runs every interval callback that is due, every setTimeout         *)
(* callback and every continuation of a settled await: the ticks of the    *)
(* choice timers and of the draw timers are strongly fair (a tick that     *)
(* calls nextTurn waits for a free handler slot of the model), and every   *)
(* resumption of a suspended handler is weakly fair.                       *)
(***************************************************************************)
\* word-select from a player of a playing room
PlayerSelects(c, w) ==
  /\ c \in SeqToSet(game.players)
  /\ game.status = "playing"
  /\ LET g == selectWordSync(game, w)
     IN BagCardinality(startHintTimer(startDrawTimer(clearChoiceTimer(timers), g, TRUE),
                                      g, TRUE)) <= MaxTimers
  /\ SelectWord(c, w)

NextFair ==
  \/ \E c \in Sockets, dt \in DrawTimes, mr \in RoundSettings : CreateGame(c, dt, mr)
  \/ \E c \in Sockets : Joins(c)
  \/ \E c \in Sockets : OwnerStarts(c)
  \/ \E c \in Sockets, w \in Words : PlayerSelects(c, w)
  \/ \E c \in Sockets, m \in Messages : Chat(c, m)
  \/ \E t \in BagToSet(tasks) : JoinPersisted(t)
  \/ \E t \in BagToSet(tasks), ws \in WordLists \ {<<>>} : StartWords(t, ws)
  \/ \E t \in BagToSet(tasks) : StartUpdated(t)
  \/ \E t \in BagToSet(tasks) : SelectUpdated(t)
  \/ \E t \in BagToSet(tasks) : NextPaused(t)
  \/ \E t \in BagToSet(tasks), ws \in WordLists \ {<<>>} : NextWords(t, ws)
  \/ \E t \in BagToSet(tasks) : NextUpdated(t)
  \/ \E t \in BagToSet(tasks) : NextFinished(t)
  \/ \E t \in BagToSet(tasks) : ChatScored(t)
  \/ \E t \in BagToSet(tasks) : ChatDrawerScored(t)
  \/ \E t \in BagToSet(tasks) : ChatInserted(t)
  \/ \E t \in BagToSet(tasks) : ChatSaved(t)
  \/ \E t \in BagToSet(tasks) : DelayFired(t)
  \/ \E t \in BagToSet(timers) : ChoiceTick(t)
  \/ \E t \in BagToSet(timers) : DrawTick(t)

\* the event loop: what Node runs without a request of a client
Fairness ==
  /\ SF_vars(\E t \in BagToSet(timers) : ChoiceTick(t))
  /\ SF_vars(\E t \in BagToSet(timers) : DrawTick(t))
  /\ WF_vars(\E t \in BagToSet(tasks) : JoinPersisted(t))
  /\ WF_vars(\E t \in BagToSet(tasks), ws \in WordLists \ {<<>>} : StartWords(t, ws))
  /\ WF_vars(\E t \in BagToSet(tasks) : StartUpdated(t))
  /\ WF_vars(\E t \in BagToSet(tasks) : SelectUpdated(t))
  /\ WF_vars(\E t \in BagToSet(tasks) : NextPaused(t))
  /\ WF_vars(\E t \in BagToSet(tasks), ws \in WordLists \ {<<>>} : NextWords(t, ws))
  /\ WF_vars(\E t \in BagToSet(tasks) : NextUpdated(t))
  /\ WF_vars(\E t \in BagToSet(tasks) : NextFinished(t))
  /\ WF_vars(\E t \in BagToSet(tasks) : ChatScored(t))
  /\ WF_vars(\E t \in BagToSet(tasks) : ChatDrawerScored(t))
  /\ WF_vars(\E t \in BagToSet(tasks) : ChatInserted(t))
  /\ WF_vars(\E t \in BagToSet(tasks) : ChatSaved(t))
  /\ WF_vars(\E t \in BagToSet(tasks) : DelayFired(t))

SpecFair == InitWith(Sockets, FALSE, MaxTasks) /\ [][NextFair]_vars /\ Fairness

(***************************************************************************)
(* The properties.                                                         *)
(***************************************************************************)
\* a message delivered to a player of a running drawing turn who is neither
\* the drawer nor has guessed
ToOutsider(m) ==
  /\ m.at.status = "playing"
  /\ m.at.gamePhase = "drawing"
  /\ m.at.secret # NoWord
  /\ m.at.isPlayer
  /\ ~m.at.isDrawer
  /\ ~m.at.hasGuessed

\* C1: every game-update snapshot delivered to a player while status =
\* playing, gamePhase = drawing and currentWord is set, the player being
\* neither the drawer nor a guesser, has currentWord = null.
C1_SnapshotHidesWord ==
  \A m \in sent : (m.ev = "game-update" /\ ToOutsider(m)) => m.word = NoWord

\* C2: during the drawing phase a word-selected or correct-guess notification
\* that carries the word is delivered only to the drawer and to players who
\* have guessed.
C2_WordNotifiedToEligible ==
  \A m \in sent :
    (m.ev \in {"word-selected", "correct-guess"} /\ m.word # NoWord
       /\ m.at.status = "playing" /\ m.at.gamePhase = "drawing" /\ m.at.isPlayer)
      => (m.at.isDrawer \/ m.at.hasGuessed)

\* text holds word as a whole word, in any case
Contains(text, word) == \E i \in 1..Len(text) : MatchAt(text, word, i)

\* C3: a chat text that is not a correct guess reaches every recipient who
\* may see the word verbatim and every other recipient with the secret word
\* masked, recipient by recipient.
C3_ChatRedactedPerRecipient ==
  \A m \in sent :
    m.ev = "chat-message" =>
      IF m.at.canSee THEN m.text = m.raw
      ELSE /\ m.text = filterChatMessage(m.raw, m.at.secret)
           /\ Len(m.text) = Len(m.raw)
           /\ m.at.secret # NoWord => ~Contains(m.text, m.at.secret)

\* one chat text delivered in one step verbatim to one player and masked to
\* another
C3_Witness ==
  \E m1, m2 \in sent :
    /\ m1.ev = "chat-message" /\ m2.ev = "chat-message"
    /\ m1.at.canSee /\ ~m2.at.canSee
    /\ m1.text = m1.raw /\ Contains(m1.text, m1.at.secret)
    /\ m2.raw = m1.raw /\ m2.text # m2.raw

\* C4: while gamePhase = choosing the candidate words (the word-choices
\* event, the wordChoices field of a snapshot, of game-started and of
\* next-turn) are delivered to the current drawer only.
C4_ChoicesToDrawerOnly ==
  \A m \in sent :
    (m.choices # NoChoices /\ m.at.gamePhase = "choosing" /\ m.at.isPlayer)
      => m.at.isDrawer

\* the decision the specification gives for canSeeWord
seeWordReference(g, viewer) ==
  IF g.status # "playing" THEN TRUE
  ELSE IF g.currentWord = NoWord THEN FALSE
  ELSE IF (g.currentDrawer # Null /\ g.currentDrawer = viewer) \/ viewer \in g.hasGuessed
       THEN TRUE
  ELSE g.gamePhase = "results"

C6_DrawingIffWord ==
  (Live /\ game.status = "playing") =>
    (game.gamePhase = "drawing" <=> game.currentWord # NoWord)

\* C7: in a live room currentDrawer is null or a member of players.
C7_DrawerIsMember ==
  Live => (game.currentDrawer = Null \/ game.currentDrawer \in SeqToSet(game.players))

\* C8: in a live room ownerId is null or the id of a member of players.
C8_OwnerIsMember ==
  Live => (game.ownerId = Null \/ game.ownerId \in SeqToSet(game.players))

\* C9: at most one choice timer, one draw timer and one hint timer run at
\* any time.
C9_OneTimerPerKind ==
  \A kind \in {"choice", "draw", "hint"} : NumRunning(timers, kind) <= 1

\* C10: once the room is deleted, and while and after restartGame waits for
\* its UPDATE until it returns, no timer of the room is running.
C10_NoTimerAfterDeleteOrRestart ==
  (room = "deleted" \/ \E t \in BagToSet(tasks) : t.k = "restart")
    => timers = EmptyBag

\* this step resumes a pending advance: nextTurn after one of its awaits, or
\* the delayed advance after all players guessed
AdvanceResumes ==
  \E t \in BagToSet(tasks) :
    t.k \in {"next", "delay"} /\ CopiesIn(t, tasks') < CopiesIn(t, tasks)

\* C11: a pending advance that resumes on a room that was restarted (status
\* = waiting) leaves status = waiting, round = 1, currentDrawer = null and
\* starts no timer; on a deleted room it starts no timer.
C11_AdvanceSuperseded ==
  [][(AdvanceResumes /\ (room = "deleted" \/ game.status = "waiting"))
       => /\ BagCardinality(timers') <= BagCardinality(timers)
          /\ Live => /\ game'.status = "waiting"
                     /\ game'.round = 1
                     /\ game'.currentDrawer = Null]_vars

\* something will move the turn on without a request of a client: a running
\* choice or draw timer, or a suspended start, selectWord, nextTurn or
\* delayed advance
AdvancePending ==
  \/ \E t \in BagToSet(timers) : t.kind \in {"choice", "draw"}
  \/ \E t \in BagToSet(tasks) : t.k \in {"start", "select", "next", "delay"}

\* C12: timeLeft is never negative, and a playing room whose countdown
\* reached 0 (in choosing, or in drawing with a word) does not stay there:
\* a timer or a suspended handler is there to take it to the next phase.
C12_ZeroNeverStalls ==
  /\ game.timeLeft >= 0
  /\ (Live /\ game.status = "playing" /\ game.timeLeft = 0
        /\ (game.gamePhase = "choosing" \/ game.currentWord # NoWord))
       => AdvancePending

\* C13: round never exceeds maxRounds, also in the state in which nextTurn
\* ends the game.
C13_RoundWithinMax == room # "none" => game.round <= game.maxRounds

\* the position of the current drawer in players
DrawerIndex == IndexOf(game.players, game.currentDrawer)

C14_FinishedIsFrozen ==
  [][(Live /\ game'.status = "finished")
       => /\ timers' = EmptyBag
          /\ game.status = "finished"
               => /\ game'.gamePhase = game.gamePhase
                  /\ game'.currentDrawer = game.currentDrawer
                  /\ game'.round = game.round
                  /\ game'.timeLeft = game.timeLeft]_vars

\* in this step checkGuess returns for a correct guess of player p: its
\* handler leaves the awaits of checkGuess
GuessReturns(p) ==
  \E t \in BagToSet(tasks) :
    /\ t.k = "chat" /\ t.src = "correct" /\ t.c = p
    /\ t.pc \in {"score1", "score2", "insert"}
    /\ CopiesIn(t, tasks') < CopiesIn(t, tasks)
    /\ ~\E u \in BagToSet(tasks') :
          /\ u.k = "chat" /\ u.c = p /\ u.pc \in {"score2", "insert"}
          /\ CopiesIn(u, tasks') > CopiesIn(u, tasks)

\* C16: when the handler of a correct guess has marked its player, who is
\* not the drawer, and with that every non-drawer player of the running
\* turn has guessed, the delayed nextTurn is scheduled as the handler goes
\* on.
C16_AllGuessedSchedulesAdvance ==
  [][\A p \in Sockets :
       (/\ GuessReturns(p)
        /\ Live
        /\ game'.status = "playing"
        /\ game'.gamePhase = "drawing"
        /\ p # game'.currentDrawer
        /\ p \in game'.hasGuessed
        /\ allPlayersGuessed(game'))
         => \E u \in BagToSet(tasks') : u.k = "delay"]_vars

\* C17: for integers drawTime in 30..300 and timeLeft in 0..drawTime a correct
\* guess adds exactly max(10, 100 + floor(timeLeft * 50 / drawTime)) to the
\* score of the guesser, a value in 100..150 that is 150 at full time, 100 at
\* timeLeft = 0 and does not decrease with timeLeft, and adds exactly 25 to
\* the score of the drawer.
C17_GuessPoints ==
  probe.fn = "checkGuess" =>
    LET points == probe.guesser - probe.before.guesser
    IN  /\ points = Max(10, 100 + ((probe.timeLeft * 50) \div probe.drawTime))
        /\ points \in 100..150
        /\ probe.timeLeft = probe.drawTime => points = 150
        /\ probe.timeLeft = 0 => points = 100
        /\ probe.timeLeft > 0 =>
             guessPoints(probe.timeLeft - 1, probe.drawTime) <= points
        /\ probe.drawer - probe.before.drawer = 25

\* C17 without the exact value: the range, the two ends, the monotonicity and
\* the 25 points of the drawer
C17_PointsShape ==
  probe.fn = "checkGuess" =>
    LET points == probe.guesser - probe.before.guesser
    IN  /\ points \in 100..150
        /\ probe.timeLeft = probe.drawTime => points = 150
        /\ probe.timeLeft = 0 => points = 100
        /\ probe.timeLeft > 0 =>
             guessPoints(probe.timeLeft - 1, probe.drawTime) <= points
        /\ probe.drawer - probe.before.drawer = 25

\* C18: when the owner is removed from a room by its disconnect and other
\* players remain, ownerId afterwards is the id of one of the remaining
\* players: not null and not the id of the removed player.
C18_OwnerTransferred ==
  [][\A c \in TurnSockets :
       (/\ Live
        /\ game.ownerId = c
        /\ c \in SeqToSet(game.players)
        /\ c \in conn /\ c \notin conn'
        /\ game'.players # <<>>)
       => /\ game'.ownerId \in SeqToSet(game'.players)
          /\ game'.ownerId # c
          /\ game'.ownerId # Null]_vars

\* the first owner left a room of three and the later of the two remaining
\* players owns it
C18_Witness ==
  /\ Live
  /\ Len(game.players) = 2
  /\ game.ownerId = game.players[2]
  /\ game.ownerId \in conn

\* a start request passed the checks of startGame: its handler is suspended
\* at the SELECT of the words
StartAccepted ==
  \E t \in BagToSet(tasks') :
     t.k = "start" /\ t.pc = "words" /\ CopiesIn(t, tasks') > CopiesIn(t, tasks)

\* C19: start takes effect only when the requester is the owner, the room has
\* at least 2 players and its status is waiting; any other start request
\* leaves status, drawer, phase, guess flags and timers unchanged.
C19_StartValidated ==
  [][StartAccepted =>
       /\ game.status = "waiting"
       /\ Len(game.players) >= 2
       /\ game.ownerId \in conn
       /\ game'.status = "playing"]_vars

\* C20: a word-select request changes the room only when the room is playing
\* in the choosing phase, the word is one of the offered wordChoices and the
\* drawer, who alone may send it, is connected; any other request leaves
\* currentWord, gamePhase, timeLeft, hints and timers unchanged.
C20_SelectValidated ==
  [][\A t \in BagToSet(tasks') :
       (/\ t.k = "select" /\ t.src = "client"
        /\ CopiesIn(t, tasks') > CopiesIn(t, tasks))
       => /\ game.status = "playing"
          /\ game.gamePhase = "choosing"
          /\ t.x \in SeqToSet(game.wordChoices)
          /\ game.currentDrawer \in conn]_vars

\* C21: restart takes effect only when the requester is the owner and the
\* room is finished; any other restart request leaves round, status, drawer,
\* word and timers unchanged.
C21_RestartValidated ==
  [][\A t \in BagToSet(tasks') :
       (t.k = "restart" /\ CopiesIn(t, tasks') > CopiesIn(t, tasks))
       => /\ game.status = "finished"
          /\ game.ownerId \in conn
          /\ game'.status = "waiting"]_vars

\* C22: in every state of a room maxRounds is in 1..10 and drawTime is in
\* 30..300, also after a restart that carries settings of the client.
C22_SettingsInRange ==
  room # "none" => /\ game.maxRounds \in 1..10
                   /\ game.drawTime \in 30..300

\* C23: an id that was kicked from a room and is in its bannedPlayers never
\* again appears in the players of that room.
C23_BannedStayOut ==
  Live => \A p \in game.bannedPlayers : p \notin SeqToSet(game.players)

C25_TransitionCompletes ==
  [][(/\ \E t \in BagToSet(tasks) :
            t.k \in {"start", "select", "next"} /\ CopiesIn(t, tasks') < CopiesIn(t, tasks)
      /\ BagCardinality(tasks') < BagCardinality(tasks)
      /\ Live
      /\ game'.status = "playing")
     => /\ game'.gamePhase = "choosing" => NumRunning(timers', "choice") >= 1
        /\ game'.gamePhase = "drawing"
             => NumRunning(timers', "draw") >= 1 /\ NumRunning(timers', "choice") = 0]_vars

\* C26: the removal of the current drawer from a playing room in which other
\* players remain cancels the choice, draw and hint timers of the room and
\* leaves gamePhase, round, currentWord and timeLeft as they are.
C26_DrawerRemoved ==
  [][\A c \in TurnSockets :
       (/\ Live
        /\ game.status = "playing"
        /\ game.currentDrawer = c
        /\ c \in SeqToSet(game.players)
        /\ c \notin SeqToSet(game'.players)
        /\ game'.players # <<>>)
       => /\ timers' = EmptyBag
          /\ game'.gamePhase = game.gamePhase
          /\ game'.round = game.round
          /\ game'.currentWord = game.currentWord
          /\ game'.timeLeft = game.timeLeft
          /\ game'.status = "playing"]_vars

\* the word occurs in s at position i, in any case
OccursAt(s, word, i) ==
  /\ i >= 1
  /\ i + Len(word) - 1 <= Len(s)
  /\ \A j \in 1..Len(word) : Lower(s[i + j - 1]) = Lower(word[j])

\* the characters next to the occurrence at i, if any, are spaces
IsToken(s, word, i) ==
  /\ OccursAt(s, word, i)
  /\ (i = 1 \/ s[i - 1] = " ")
  /\ (i + Len(word) - 1 = Len(s) \/ s[i + Len(word)] = " ")

\* C27: filterChatMessage returns a string of the length of the message; an
\* occurrence of the secret word between spaces or the ends of the message,
\* in any case, is replaced by asterisks and does not remain in the output;
\* a character changes only to an asterisk and only inside an occurrence of
\* the word that no letter precedes or follows (plurals stay as they are).
C27_FilterMasksWord ==
  probe.fn = "filterChatMessage" =>
    LET m == probe.message
        w == probe.currentWord
        r == probe.result
    IN  /\ Len(r) = Len(m)
        /\ \A i \in 1..Len(m) :
             IsToken(m, w, i) => \A j \in 0..(Len(w) - 1) : r[i + j] = "*"
        /\ \A i \in 1..Len(r) : ~IsToken(r, w, i)
        /\ \A k \in 1..Len(m) :
             r[k] # m[k]
               => /\ r[k] = "*"
                  /\ \E i \in 1..k :
                        /\ k <= i + Len(w) - 1
                        /\ OccursAt(m, w, i)
                        /\ (i = 1 \/ Lower(m[i - 1]) \notin {"a", "t", "s"})
                        /\ (i + Len(w) - 1 = Len(m)
                              \/ Lower(m[i + Len(w)]) \notin {"a", "t", "s"})

\* the letters of the word that the hints show
RevealedLetters ==
  {i \in 1..Len(probe.word) : probe.hints[i] # "_" /\ probe.hints[i] # "     "}

\* C28: right after selectWord the hints show no letter; during the turn the
\* number of letters shown never exceeds floor(len(word) * 0.5) and stays 0
\* for words of 3 characters or fewer; a space of the word is shown as the
\* gap and never as a letter or an underscore, however late the ticks fire.
C28_HintsBounded ==
  probe.fn = "startHintTimer" =>
    /\ Cardinality(RevealedLetters) <= Len(probe.word) \div 2
    /\ Len(probe.word) <= 3 => RevealedLetters = {}
    /\ probe.hintsRevealed = 0 => RevealedLetters = {}
    /\ \A i \in 1..Len(probe.word) :
         /\ probe.word[i] = " " <=> probe.hints[i] = "     "
         /\ probe.hints[i] \in {"_", "     ", probe.word[i]}

\* C29: a draw event is appended to drawingData only when the current drawer
\* sends it while the room is playing in the drawing phase; clear-canvas
\* empties drawingData only when the current drawer sends it while the room
\* is playing.  (nextTurn and restart, which also empty it, change tasks.)
C29_DrawingAccepted ==
  [][/\ (Live /\ Len(game'.drawingData) > Len(game.drawingData))
          => /\ game.status = "playing"
             /\ game.gamePhase = "drawing"
             /\ game.currentDrawer \in conn
     /\ (Live /\ game.drawingData # <<>> /\ game'.drawingData = <<>> /\ tasks' = tasks)
          => /\ game.status = "playing"
             /\ game.currentDrawer \in conn]_vars

\* the calls that returned true at the times from..to
RECURSIVE AllowedIn(_, _)
AllowedIn(from, to) ==
  IF from > to \/ from > MaxNow THEN 0
  ELSE probe.allowed[from] + AllowedIn(from + 1, to)

\* C30: for one actor and action, checkLimit returns true for at most
\* maxRequests calls within any time interval of length windowMs, and returns
\* true again once the window has passed.
C30_RateLimited ==
  probe.fn = "checkLimit" =>
    /\ \A t \in 0..MaxNow : AllowedIn(t, t + LimitWindow - 1) <= LimitMax
    /\ probe.result = "false" => (probe.has /\ probe.now <= probe.resetTime)

RestartRuns ==
  \E u \in BagToSet(tasks') : u.k = "restart" /\ CopiesIn(u, tasks') > CopiesIn(u, tasks)

\* C32: every score is a non-negative integer; a step that is not a restart
\* lowers the score of no player who stays in the room; a restart leaves
\* every score at 0 and every hasGuessed false.
C32_ScoreMonotone ==
  [][(Live /\ room' = "live") =>
       /\ \A p \in DOMAIN game'.score :
            game'.score[p] # NonFinite /\ game'.score[p] >= 0
       /\ IF RestartRuns
          THEN /\ \A p \in DOMAIN game'.score : game'.score[p] = 0
               /\ game'.hasGuessed = {}
          ELSE \A p \in DOMAIN game.score \cap DOMAIN game'.score :
                 game'.score[p] >= game.score[p]]_vars

\* C33: the game getGameByRoomCode builds from the database has the
\* persisted players, scores and status, and wordChoices null, drawingData
\* empty, hints empty and playersReady empty.
C33_RehydratedRoom ==
  probe.fn = "getGameByRoomCode" =>
    /\ game.players = probe.row.players
    /\ game.score = probe.row.score
    /\ game.status = probe.row.status
    /\ game.wordChoices = NoChoices
    /\ game.drawingData = <<>>
    /\ game.hints = <<>>
    /\ game.playersReady = <<>>

\* C33, amended: as C33, but hints is empty only when no word is persisted;
\* with a persisted word it is one "_" for every character of the word.
C33_RehydratedRoomMasked ==
  probe.fn = "getGameByRoomCode" =>
    /\ game.players = probe.row.players
    /\ game.score = probe.row.score
    /\ game.status = probe.row.status
    /\ game.wordChoices = NoChoices
    /\ game.drawingData = <<>>
    /\ game.playersReady = <<>>
    /\ Len(game.hints) = Len(probe.row.current_word)
    /\ \A i \in 1..Len(game.hints) : game.hints[i] = "_"

C33_Witness ==
  /\ probe.fn = "getGameByRoomCode"
  /\ probe.row.current_word = Taco
  /\ probe.row.status = "playing"
  /\ game.hints = <<"_", "_", "_", "_">>
  /\ game.players = <<1, 2>>
  /\ game.score[2] = basePoints + drawerPoints

C35_OneAdvancePerTurn ==
  [][(/\ Live /\ room' = "live"
      /\ game.status = "playing"
      /\ game'.players = game.players
      /\ game.currentDrawer # Null
      /\ \/ game'.status = "playing" /\ game'.currentDrawer # game.currentDrawer
         \/ game'.status = "finished")
       => /\ game.gamePhase = "drawing"
          /\ game.currentWord # NoWord
          /\ game'.round <= game.round + 1
          /\ game'.status = "playing"
               => game'.currentDrawer = game.players[(DrawerIndex % Len(game.players)) + 1]]_vars

\* the chat-message handler of socket c ran to its first await in this step
ChatArrives(c) ==
  \E t \in BagToSet(tasks') :
    t.k = "chat" /\ t.c = c /\ CopiesIn(t, tasks') > CopiesIn(t, tasks)

\* C36: a chat text of a player who has already guessed in this turn, of the
\* drawer, or sent outside a drawing phase with a word, changes no score and
\* no hasGuessed flag: points are awarded once per guesser and turn.
C36_PointsOnce ==
  [][\A c \in TurnSockets :
       (/\ ChatArrives(c)
        /\ \/ c \in game.hasGuessed
           \/ (game.currentDrawer # Null /\ game.currentDrawer = c)
           \/ game.gamePhase # "drawing"
           \/ game.currentWord = NoWord)
         => /\ game'.score = game.score
            /\ game'.hasGuessed = game.hasGuessed]_vars

\* C37: in the step that takes a playing room from choosing to drawing no
\* player has hasGuessed set, whatever handlers were suspended meanwhile.
C37_DrawingStartsUnguessed ==
  [][(/\ Live /\ room' = "live"
      /\ game'.status = "playing"
      /\ game.gamePhase = "choosing"
      /\ game'.gamePhase = "drawing")
       => game'.hasGuessed = {}]_vars

\* C38: a socket whose disconnect the server has processed is in the players
\* of no live room: every player of a live room is a connected socket.
C38_DisconnectedStayOut ==
  Live => \A p \in SeqToSet(game.players) : p \in conn

\* nextTurn took the words of its SELECT and started a turn in this step
TurnBegins ==
  \E t \in BagToSet(tasks) :
    t.k = "next" /\ t.pc = "words" /\ CopiesIn(t, tasks') < CopiesIn(t, tasks)

=============================================================================
